---- MODULE Spec2Model ----
(***************************************************************************)
(* A model of the semantic engine of lox-ast: the Resolver                 *)
(* (src/src/resolver.rs), the tree-walking Interpreter                     *)
(* (src/src/interpreter.rs), the Environment chain                         *)
(* (src/src/environment.rs) and user functions (src/src/lox_function.rs).  *)
(*                                                                         *)
(* Both visitors are recursive Rust functions.  They are modelled as       *)
(* machines with an explicit stack: `rstack` holds what Resolver::resolve  *)
(* still has to do, `kont` holds the Rust call frames of the Interpreter   *)
(* that wait for a result, and `ctl` holds what is executed right now or   *)
(* the Result<_, LoxResult> that is being handed back to the top frame.    *)
(***************************************************************************)
EXTENDS Integers, Sequences, FiniteSets, TLC

\* Longest program (number of top-level statements) handed to the Resolver.
MaxStmts == 2
\* Most environments one run may allocate.
MaxEnvs == 12
\* Most resolution passes one Resolver is given (SpecResolver only).
MaxPasses == 3
\* Longest chain of environments a call of Environment is tried on
\* (SpecEnvironment only).
MaxDepth == 3

VARIABLES
    prog,             \* the statement list given to resolve() and interpret()
    pc,               \* "idle" | "resolving" | "resolved" | "running" | "done"
    passes,           \* how many passes this Resolver has been given
    scopes,           \* Resolver.scopes: stack of name -> bool, innermost last
    current_function, \* Resolver.current_function
    in_loop,          \* Resolver.in_loop
    had_error,        \* Resolver.had_error
    rstack,           \* pending work of Resolver::resolve, next task first
    rresult,          \* what resolve() returned: "none" | "Ok" | "Err"
    resolved_top,     \* top-level statements the pass has started to resolve
    diagnostics,      \* lines written by LoxResult::report
    locals,           \* Interpreter.locals: node id -> distance
    envs,             \* every Environment allocated so far; 1 is globals
    environment,      \* Interpreter.environment: the current environment
    ctl,              \* what the Interpreter executes or returns right now
    kont,             \* Interpreter call frames awaiting a result, top first
    output,           \* lines written by print
    success,          \* what interpret() returned: "none" | TRUE | FALSE
    instances,        \* every LoxInstance created so far
    exits,            \* history: the results execute_block has returned so far
    last              \* the operation that produced the current state

vars == <<prog, pc, passes, scopes, current_function, in_loop, had_error, rstack,
          rresult, resolved_top, diagnostics, locals, envs, environment, ctl, kont,
          output, success, instances, exits, last>>

resolverVars == <<scopes, current_function, in_loop, had_error, rstack, rresult,
                  resolved_top, diagnostics, locals>>

interpreterVars == <<envs, environment, ctl, kont, output, success, instances, exits>>

----------------------------------------------------------------------------
\* Finite maps (HashMap<String, _>).

EmptyMap == [x \in {} |-> 0]

Put(m, key, value) == [x \in (DOMAIN m) \cup {key} |-> IF x = key THEN value ELSE m[x]]

----------------------------------------------------------------------------
\* Runtime values (Object).

Nil == [k |-> "Nil", v |-> 0]

Num(n) == [k |-> "Num", v |-> n]

Bool(b) == [k |-> "Bool", v |-> b]

Str(s) == [k |-> "Str", v |-> s]

Native(name) == [k |-> "Native", v |-> name]

ErrorMessage(s) == [k |-> "ErrorMessage", v |-> s]

\* LoxFunction::new
LoxFunction(declaration, closure, is_initializer) ==
    [k |-> "Function",
     v |-> [declaration |-> declaration, closure |-> closure,
            is_initializer |-> is_initializer]]

\* LoxClass::new; superclass is a Class value or Nil (None).
LoxClass(name, superclass, methods) ==
    [k |-> "Class", v |-> [name |-> name, superclass |-> superclass, methods |-> methods]]

\* Object::Instance: an instance is named by its place in `instances`, as the
\* Rc names the one LoxInstance.
Instance(i) == [k |-> "Instance", v |-> i]

\* LoxInstance::new
LoxInstance(klass) == [klass |-> klass, fields |-> EmptyMap]

----------------------------------------------------------------------------
\* The syntax tree.  Variable, Assign, Break and While nodes carry an id: the
\* identity of the Rc the node lives in.

None == [t |-> "None"]

LiteralExpr(value) == [t |-> "Literal", value |-> value]

VariableExpr(id, name) == [t |-> "Variable", id |-> id, name |-> name]

AssignExpr(id, name, value) == [t |-> "Assign", id |-> id, name |-> name, value |-> value]

BinaryExpr(left, operator, right) ==
    [t |-> "Binary", left |-> left, operator |-> operator, right |-> right]

CallExpr(callee, arguments) == [t |-> "Call", callee |-> callee, arguments |-> arguments]

GetExpr(object, name) == [t |-> "Get", object |-> object, name |-> name]

SetExpr(object, name, value) == [t |-> "Set", object |-> object, name |-> name, value |-> value]

ThisExpr(id) == [t |-> "This", id |-> id]

GroupingExpr(expression) == [t |-> "Grouping", expression |-> expression]

LogicalExpr(left, operator, right) ==
    [t |-> "Logical", left |-> left, operator |-> operator, right |-> right]

UnaryExpr(operator, right) == [t |-> "Unary", operator |-> operator, right |-> right]

\* `super.method` in the program text.  The Expr family has no node for it:
\* the scanner makes the keyword a token and the parser has no rule for it.
SuperExpr(id, method) == [t |-> "Super", id |-> id, method |-> method]

BreakStmt(id) == [t |-> "Break", id |-> id]

ClassStmt(name, superclass, methods) ==
    [t |-> "Class", name |-> name, superclass |-> superclass, methods |-> methods]

BlockStmt(statements) == [t |-> "Block", statements |-> statements]

ExpressionStmt(expression) == [t |-> "Expression", expression |-> expression]

FunctionStmt(name, params, body) ==
    [t |-> "Function", name |-> name, params |-> params, body |-> body]

IfStmt(condition, then_branch, else_branch) ==
    [t |-> "If", condition |-> condition, then_branch |-> then_branch,
     else_branch |-> else_branch]

PrintStmt(expression) == [t |-> "Print", expression |-> expression]

ReturnStmt(value) == [t |-> "Return", value |-> value]

VarStmt(name, initializer) == [t |-> "Var", name |-> name, initializer |-> initializer]

WhileStmt(id, condition, body) ==
    [t |-> "While", id |-> id, condition |-> condition, body |-> body]

----------------------------------------------------------------------------
\* The statements programs are built from.  A program is a sequence of up to
\* MaxStmts different statements of the pool, so every node id occurs once.

NumLit(n) == LiteralExpr(Num(n))

TrueLit == LiteralExpr(Bool(TRUE))

StrLit(s) == LiteralExpr(Str(s))

\* i = i + 1;
Increment(idA, idV, name) ==
    ExpressionStmt(AssignExpr(idA, name, BinaryExpr(VariableExpr(idV, name), "Plus", NumLit(1))))

\* var a = 1;
GlobalA == VarStmt("a", NumLit(1))

\* var b = 3;
GlobalB == VarStmt("b", NumLit(3))

\* { var a = 2; { var a = 3; print a; } { print a; } }
Shadow ==
    BlockStmt(<<VarStmt("a", NumLit(2)),
                BlockStmt(<<VarStmt("a", NumLit(3)), PrintStmt(VariableExpr(1, "a"))>>),
                BlockStmt(<<PrintStmt(VariableExpr(42, "a"))>>)>>)

\* { var b = 1; { print b; b = 2; { print a; } } }
Nested ==
    BlockStmt(<<VarStmt("b", NumLit(1)),
                BlockStmt(<<PrintStmt(VariableExpr(2, "b")),
                            ExpressionStmt(AssignExpr(3, "b", NumLit(2))),
                            BlockStmt(<<PrintStmt(VariableExpr(4, "a"))>>)>>)>>)

\* { var a = a; }
SelfInit == BlockStmt(<<VarStmt("a", VariableExpr(5, "a"))>>)

\* break;
TopBreak == BreakStmt(6)

\* return;
TopReturn == ReturnStmt(None)

\* { var a = 1; var a = 2; fun a(p, p) { } class a { } }
Duplicate ==
    BlockStmt(<<VarStmt("a", NumLit(1)), VarStmt("a", NumLit(2)),
                FunctionStmt("a", <<"p", "p">>, <<>>), ClassStmt("a", None, <<>>)>>)

\* { var i = 0; while (i < 2) { i = i + 1; while (true) { break; } print i; } }
NestedLoops ==
    BlockStmt(<<VarStmt("i", NumLit(0)),
                WhileStmt(7, BinaryExpr(VariableExpr(8, "i"), "Less", NumLit(2)),
                    BlockStmt(<<Increment(9, 10, "i"),
                                WhileStmt(11, TrueLit, BlockStmt(<<BreakStmt(12)>>)),
                                PrintStmt(VariableExpr(13, "i"))>>))>>)

\* { var i = 0;
\*   while (i < 1) { i = i + 1; fun g() { break; } while (true) { g(); } print i; } }
BreakInFunction ==
    BlockStmt(<<VarStmt("i", NumLit(0)),
                WhileStmt(14, BinaryExpr(VariableExpr(15, "i"), "Less", NumLit(1)),
                    BlockStmt(<<Increment(16, 17, "i"),
                                FunctionStmt("g", <<>>, <<BreakStmt(18)>>),
                                WhileStmt(19, TrueLit,
                                    BlockStmt(<<ExpressionStmt(
                                        CallExpr(VariableExpr(20, "g"), <<>>))>>)),
                                PrintStmt(VariableExpr(21, "i"))>>))>>)

\* { var h; while (true) { fun f() { break; } h = f; break; } h(); }
BreakEscapes ==
    BlockStmt(<<VarStmt("h", None),
                WhileStmt(22, TrueLit,
                    BlockStmt(<<FunctionStmt("f", <<>>, <<BreakStmt(23)>>),
                                ExpressionStmt(AssignExpr(24, "h", VariableExpr(25, "f"))),
                                BreakStmt(26)>>)),
                ExpressionStmt(CallExpr(VariableExpr(27, "h"), <<>>))>>)

\* fun f(x) { { return x; } print 0; }
DeclareF ==
    FunctionStmt("f", <<"x">>,
        <<BlockStmt(<<ReturnStmt(VariableExpr(28, "x"))>>), PrintStmt(NumLit(0))>>)

\* print f(1);
CallF == PrintStmt(CallExpr(VariableExpr(29, "f"), <<NumLit(1)>>))

\* { fun g() { return a; } var a = 5; print g(); }
LateLocalRead ==
    BlockStmt(<<FunctionStmt("g", <<>>, <<ReturnStmt(VariableExpr(30, "a"))>>),
                VarStmt("a", NumLit(5)),
                PrintStmt(CallExpr(VariableExpr(31, "g"), <<>>))>>)

\* { fun s() { b = 7; } var b = 0; s(); print b; }
LateLocalWrite ==
    BlockStmt(<<FunctionStmt("s", <<>>, <<ExpressionStmt(AssignExpr(32, "b", NumLit(7)))>>),
                VarStmt("b", NumLit(0)),
                ExpressionStmt(CallExpr(VariableExpr(33, "s"), <<>>)),
                PrintStmt(VariableExpr(34, "b"))>>)

\* a = 9;
AssignA == ExpressionStmt(AssignExpr(35, "a", NumLit(9)))

\* if (a < 2) print 1; else print b;
Branch ==
    IfStmt(BinaryExpr(VariableExpr(36, "a"), "Less", NumLit(2)),
           PrintStmt(NumLit(1)), PrintStmt(VariableExpr(37, "b")))

\* { var c = 1; fun k() { return c; } { var d = 2; { print k(); } } }
Closure ==
    BlockStmt(<<VarStmt("c", NumLit(1)),
                FunctionStmt("k", <<>>, <<ReturnStmt(VariableExpr(38, "c"))>>),
                BlockStmt(<<VarStmt("d", NumLit(2)),
                            BlockStmt(<<PrintStmt(
                                CallExpr(VariableExpr(39, "k"), <<>>))>>)>>)>>)

\* { fun z(p) { } z(); }
BadArity ==
    BlockStmt(<<FunctionStmt("z", <<"p">>, <<>>),
                ExpressionStmt(CallExpr(VariableExpr(40, "z"), <<>>))>>)

\* { var n = 1; while (true) { break; } { n(); } }
NotCallable ==
    BlockStmt(<<VarStmt("n", NumLit(1)),
                WhileStmt(43, TrueLit, BlockStmt(<<BreakStmt(44)>>)),
                BlockStmt(<<ExpressionStmt(CallExpr(VariableExpr(41, "n"), <<>>))>>)>>)

\* class A { m() { return 1; } }
ClassA == ClassStmt("A", None, <<FunctionStmt("m", <<>>, <<ReturnStmt(NumLit(1))>>)>>)

\* class B < A { }
ClassB == ClassStmt("B", VariableExpr(45, "A"), <<>>)

\* a.f = a.g;
FieldCopy ==
    ExpressionStmt(SetExpr(VariableExpr(76, "a"), "f", GetExpr(VariableExpr(77, "a"), "g")))

\* print !(a or -b);
Negations ==
    PrintStmt(UnaryExpr("Bang",
        GroupingExpr(LogicalExpr(VariableExpr(102, "a"), "Or",
                                 UnaryExpr("Minus", VariableExpr(103, "b"))))))

Pool ==
    <<GlobalA, GlobalB, Shadow, Nested, SelfInit, TopBreak, TopReturn, Duplicate,
      NestedLoops, BreakInFunction, BreakEscapes, DeclareF, CallF, LateLocalRead,
      LateLocalWrite, AssignA, Branch, Closure, BadArity, NotCallable, ClassA, ClassB,
      FieldCopy, Negations>>

\* fun name(n) { if (n <= 1) return 1; return n * name(n - 1); }
Factorial(name, id) ==
    FunctionStmt(name, <<"n">>,
        <<IfStmt(BinaryExpr(VariableExpr(id, "n"), "LessEqual", NumLit(1)),
                 ReturnStmt(NumLit(1)), None),
          ReturnStmt(BinaryExpr(VariableExpr(id + 1, "n"), "Star",
              CallExpr(VariableExpr(id + 2, name),
                       <<BinaryExpr(VariableExpr(id + 3, "n"), "Minus", NumLit(1))>>)))>>)

\* print left operator right;
PrintBinary(left, operator, right) ==
    PrintStmt(BinaryExpr(LiteralExpr(left), operator, LiteralExpr(right)))

\* The scripts: whole programs, each a sequence of statements.

\* A global, then a function that reads it around a local of the same name, and
\* a function that keeps writing the local it closed over.
ScopeScript ==
    <<GlobalA,
      \* { fun showA() { return a; } print showA(); var a = 2; print showA();
      \*   { var a = 3; print showA(); } }
      BlockStmt(<<FunctionStmt("showA", <<>>, <<ReturnStmt(VariableExpr(46, "a"))>>),
                  PrintStmt(CallExpr(VariableExpr(47, "showA"), <<>>)),
                  VarStmt("a", NumLit(2)),
                  PrintStmt(CallExpr(VariableExpr(48, "showA"), <<>>)),
                  BlockStmt(<<VarStmt("a", NumLit(3)),
                              PrintStmt(CallExpr(VariableExpr(49, "showA"), <<>>))>>)>>),
      \* { var c = 1; fun k() { c = c + 1; return c; } print k();
      \*   { var c = 10; print k(); print c; } print c; }
      BlockStmt(<<VarStmt("c", NumLit(1)),
                  FunctionStmt("k", <<>>,
                      <<Increment(50, 51, "c"), ReturnStmt(VariableExpr(52, "c"))>>),
                  PrintStmt(CallExpr(VariableExpr(53, "k"), <<>>)),
                  BlockStmt(<<VarStmt("c", NumLit(10)),
                              PrintStmt(CallExpr(VariableExpr(54, "k"), <<>>)),
                              PrintStmt(VariableExpr(55, "c"))>>),
                  PrintStmt(VariableExpr(56, "c"))>>)>>

\* Two counters made by two calls of make.
CounterScript ==
      \* fun make() { var n = 0; fun inc() { n = n + 1; return n; } return inc; }
    <<FunctionStmt("make", <<>>,
          <<VarStmt("n", NumLit(0)),
            FunctionStmt("inc", <<>>,
                <<Increment(57, 58, "n"), ReturnStmt(VariableExpr(59, "n"))>>),
            ReturnStmt(VariableExpr(60, "inc"))>>),
      \* var p = make();
      VarStmt("p", CallExpr(VariableExpr(61, "make"), <<>>)),
      \* var q = make();
      VarStmt("q", CallExpr(VariableExpr(62, "make"), <<>>)),
      \* print p();
      PrintStmt(CallExpr(VariableExpr(63, "p"), <<>>)),
      \* print p();
      PrintStmt(CallExpr(VariableExpr(64, "p"), <<>>)),
      \* print q();
      PrintStmt(CallExpr(VariableExpr(65, "q"), <<>>))>>

\* The factorial at top level and in a block.
FactorialScript ==
      \* fun f(n) { ... }
    <<Factorial("f", 66),
      \* print f(5);
      PrintStmt(CallExpr(VariableExpr(70, "f"), <<NumLit(5)>>)),
      \* { fun g(n) { ... } print g(3); }
      BlockStmt(<<Factorial("g", 71),
                  PrintStmt(CallExpr(VariableExpr(75, "g"), <<NumLit(3)>>))>>)>>

\* Classes with an initializer that returns a value, with an inherited
\* initializer, with an initializer that returns nothing and with none.
InitScript ==
    <<ClassA,
      \* class P { init(x) { return 2; } hello() { return 1; } }
      ClassStmt("P", None,
          <<FunctionStmt("init", <<"x">>, <<ReturnStmt(NumLit(2))>>),
            FunctionStmt("hello", <<>>, <<ReturnStmt(NumLit(1))>>)>>),
      \* class Q < P { }
      ClassStmt("Q", VariableExpr(90, "P"), <<>>),
      \* class R { init() { } }
      ClassStmt("R", None, <<FunctionStmt("init", <<>>, <<>>)>>),
      \* var o = Q(7);
      VarStmt("o", CallExpr(VariableExpr(78, "Q"), <<NumLit(7)>>)),
      \* var r = R();
      VarStmt("r", CallExpr(VariableExpr(79, "R"), <<>>)),
      \* var s = A();
      VarStmt("s", CallExpr(VariableExpr(80, "A"), <<>>)),
      \* var again = o.init(9);
      VarStmt("again", CallExpr(GetExpr(VariableExpr(81, "o"), "init"), <<NumLit(9)>>)),
      \* var anew = r.init();
      VarStmt("anew", CallExpr(GetExpr(VariableExpr(82, "r"), "init"), <<>>))>>

\* An initializer that stores its argument in a field of `this`.
ThisScript ==
      \* class T { init(x) { this.f = x; } }
    <<ClassStmt("T", None,
          <<FunctionStmt("init", <<"x">>,
                <<ExpressionStmt(SetExpr(ThisExpr(91), "f", VariableExpr(92, "x")))>>)>>),
      \* var t = T(3);
      VarStmt("t", CallExpr(VariableExpr(93, "T"), <<NumLit(3)>>)),
      \* print t.f;
      PrintStmt(GetExpr(VariableExpr(94, "t"), "f"))>>

\* A method that returns its argument.
EchoScript ==
      \* class U { echo(x) { return x; } }
    <<ClassStmt("U", None, <<FunctionStmt("echo", <<"x">>, <<ReturnStmt(VariableExpr(95, "x"))>>)>>),
      \* print U().echo(4);
      PrintStmt(CallExpr(GetExpr(CallExpr(VariableExpr(96, "U"), <<>>), "echo"), <<NumLit(4)>>))>>

\* A method read through an instance, hidden by a field of one instance, still
\* there for another instance; a name that is neither field nor method.
PropertyScript ==
      \* class P { init(x) { return 2; } hello() { return 1; } }
    <<ClassStmt("P", None,
          <<FunctionStmt("init", <<"x">>, <<ReturnStmt(NumLit(2))>>),
            FunctionStmt("hello", <<>>, <<ReturnStmt(NumLit(1))>>)>>),
      \* class Q < P { }
      ClassStmt("Q", VariableExpr(90, "P"), <<>>),
      \* var o = Q(7);
      VarStmt("o", CallExpr(VariableExpr(78, "Q"), <<NumLit(7)>>)),
      \* var h = o.hello;
      VarStmt("h", GetExpr(VariableExpr(83, "o"), "hello")),
      \* print h();
      PrintStmt(CallExpr(VariableExpr(84, "h"), <<>>)),
      \* o.hello = 5;
      ExpressionStmt(SetExpr(VariableExpr(85, "o"), "hello", NumLit(5))),
      \* print o.hello;
      PrintStmt(GetExpr(VariableExpr(86, "o"), "hello")),
      \* var o2 = Q(8);
      VarStmt("o2", CallExpr(VariableExpr(87, "Q"), <<NumLit(8)>>)),
      \* print o2.hello();
      PrintStmt(CallExpr(GetExpr(VariableExpr(88, "o2"), "hello"), <<>>)),
      \* print o.nothing;
      PrintStmt(GetExpr(VariableExpr(89, "o"), "nothing"))>>

\* Comparisons of equal kinds and of nil, then of a number and a string.
EqualityScript ==
      \* print 1 == 1;
    <<PrintBinary(Num(1), "EqualEqual", Num(1)),
      \* print "a" != "b";
      PrintBinary(Str("a"), "BangEqual", Str("b")),
      \* print nil == 1;
      PrintBinary(Nil, "EqualEqual", Num(1)),
      \* print 1 == "a";
      PrintBinary(Num(1), "EqualEqual", Str("a"))>>

\* A comparison of a string and a boolean.
UnequalScript ==
      \* print 1 == 1;
    <<PrintBinary(Num(1), "EqualEqual", Num(1)),
      \* print "a" != true;
      PrintBinary(Str("a"), "BangEqual", Bool(TRUE))>>

\* A comparison of a function with itself.
EqualFunctionsScript ==
    <<DeclareF,
      \* print f == f;
      PrintStmt(BinaryExpr(VariableExpr(97, "f"), "EqualEqual", VariableExpr(98, "f")))>>

\* Sums of numbers and strings, then of a string and a boolean.
PlusScript ==
      \* print 1 + 2;
    <<PrintBinary(Num(1), "Plus", Num(2)),
      \* print "a" + "b";
      PrintBinary(Str("a"), "Plus", Str("b")),
      \* print 1 + "a";
      PrintBinary(Num(1), "Plus", Str("a")),
      \* print "a" + 1;
      PrintBinary(Str("a"), "Plus", Num(1)),
      \* print "a" + true;
      PrintBinary(Str("a"), "Plus", Bool(TRUE))>>

\* A sum of nil and a string.
PlusNilScript ==
      \* print 1 + 2;
    <<PrintBinary(Num(1), "Plus", Num(2)),
      \* print nil + "a";
      PrintBinary(Nil, "Plus", Str("a"))>>

\* A sum of a boolean and a number.
PlusBoolScript ==
      \* print 1 + 2;
    <<PrintBinary(Num(1), "Plus", Num(2)),
      \* print true + 1;
      PrintBinary(Bool(TRUE), "Plus", Num(1))>>

\* A method of a subclass that calls the method it overrides.
SuperScript ==
      \* class A { greet() { return "A"; } }
    <<ClassStmt("A", None, <<FunctionStmt("greet", <<>>, <<ReturnStmt(StrLit("A"))>>)>>),
      \* class B < A { greet() { return super.greet() + "B"; } }
      ClassStmt("B", VariableExpr(99, "A"),
          <<FunctionStmt("greet", <<>>,
                <<ReturnStmt(BinaryExpr(CallExpr(SuperExpr(100, "greet"), <<>>), "Plus",
                                        StrLit("B")))>>)>>),
      \* print B().greet();
      PrintStmt(CallExpr(GetExpr(CallExpr(VariableExpr(101, "B"), <<>>), "greet"), <<>>))>>

\* The operators that take numbers, on numbers, then a number minus a string.
NumericScript ==
    <<PrintBinary(Num(7), "Minus", Num(2)),
      PrintBinary(Num(3), "Star", Num(2)),
      PrintBinary(Num(6), "Slash", Num(2)),
      PrintBinary(Num(2), "Greater", Num(1)),
      PrintBinary(Num(2), "GreaterEqual", Num(3)),
      PrintBinary(Num(1), "Less", Num(2)),
      PrintBinary(Num(2), "LessEqual", Num(1)),
      \* print 1 - "a";
      PrintBinary(Num(1), "Minus", Str("a"))>>

\* print 7 - 2; print 15 - true;
MinusBoolScript ==
    <<PrintBinary(Num(7), "Minus", Num(2)), PrintBinary(Num(15), "Minus", Bool(TRUE))>>

\* print 7 - 2; print 15 > true;
GreaterBoolScript ==
    <<PrintBinary(Num(7), "Minus", Num(2)), PrintBinary(Num(15), "Greater", Bool(TRUE))>>

\* print 7 - 2; print nil / 2;
SlashNilScript ==
    <<PrintBinary(Num(7), "Minus", Num(2)), PrintBinary(Nil, "Slash", Num(2))>>

\* print 7 - 2; print "a" * 2;
StarStringScript ==
    <<PrintBinary(Num(7), "Minus", Num(2)), PrintBinary(Str("a"), "Star", Num(2))>>

\* print 6 / 3; print 1 / 0;
SlashZeroScript ==
    <<PrintBinary(Num(6), "Slash", Num(3)), PrintBinary(Num(1), "Slash", Num(0))>>

\* print 6 / 3; print 0 / 0;
ZeroSlashZeroScript ==
    <<PrintBinary(Num(6), "Slash", Num(3)), PrintBinary(Num(0), "Slash", Num(0))>>

\* Logical operators whose right operand writes a global.
LogicalScript ==
    <<GlobalA,
      \* print nil or "x";
      PrintStmt(LogicalExpr(LiteralExpr(Nil), "Or", StrLit("x"))),
      \* print 0 or (a = 2);
      PrintStmt(LogicalExpr(NumLit(0), "Or", GroupingExpr(AssignExpr(104, "a", NumLit(2))))),
      \* print a;
      PrintStmt(VariableExpr(105, "a")),
      \* print nil and (a = 3);
      PrintStmt(LogicalExpr(LiteralExpr(Nil), "And",
                            GroupingExpr(AssignExpr(106, "a", NumLit(3))))),
      \* print a;
      PrintStmt(VariableExpr(107, "a")),
      \* print 1 and (a = a + 1);
      PrintStmt(LogicalExpr(NumLit(1), "And",
          GroupingExpr(AssignExpr(108, "a",
              BinaryExpr(VariableExpr(109, "a"), "Plus", NumLit(1)))))),
      \* print a;
      PrintStmt(VariableExpr(110, "a")),
      \* print false or false;
      PrintStmt(LogicalExpr(LiteralExpr(Bool(FALSE)), "Or", LiteralExpr(Bool(FALSE))))>>

\* Conditions and operands of every kind, then the negation of a string.
TruthScript ==
    <<\* if (0) print "zero"; else print "no";
      IfStmt(NumLit(0), PrintStmt(StrLit("zero")), PrintStmt(StrLit("no"))),
      \* if ("") print "empty"; else print "no";
      IfStmt(StrLit(""), PrintStmt(StrLit("empty")), PrintStmt(StrLit("no"))),
      \* if (clock) print "native";
      IfStmt(VariableExpr(114, "clock"), PrintStmt(StrLit("native")), None),
      \* if (nil) print "no"; else print "nil";
      IfStmt(LiteralExpr(Nil), PrintStmt(StrLit("no")), PrintStmt(StrLit("nil"))),
      \* if (false) print "no"; else print "false";
      IfStmt(LiteralExpr(Bool(FALSE)), PrintStmt(StrLit("no")), PrintStmt(StrLit("false"))),
      \* while (nil) print "no";
      WhileStmt(111, LiteralExpr(Nil), PrintStmt(StrLit("no"))),
      \* while (0) { print "loop"; break; }
      WhileStmt(112, NumLit(0), BlockStmt(<<PrintStmt(StrLit("loop")), BreakStmt(113)>>)),
      \* print !0; print !""; print !nil; print !false;
      PrintStmt(UnaryExpr("Bang", NumLit(0))),
      PrintStmt(UnaryExpr("Bang", StrLit(""))),
      PrintStmt(UnaryExpr("Bang", LiteralExpr(Nil))),
      PrintStmt(UnaryExpr("Bang", LiteralExpr(Bool(FALSE)))),
      \* print -3;
      PrintStmt(UnaryExpr("Minus", NumLit(3))),
      \* print 0 or 1; print "" and 1;
      PrintStmt(LogicalExpr(NumLit(0), "Or", NumLit(1))),
      PrintStmt(LogicalExpr(StrLit(""), "And", NumLit(1))),
      \* print -"a";
      PrintStmt(UnaryExpr("Minus", StrLit("a")))>>

\* A call whose callee and arguments print or write, a call of the native
\* function, then a call with an argument too few.
CallOrderScript ==
    <<GlobalA,
      \* fun two(x, y) { print x; print y; }
      FunctionStmt("two", <<"x", "y">>,
          <<PrintStmt(VariableExpr(115, "x")), PrintStmt(VariableExpr(116, "y"))>>),
      \* fun pick() { print "callee"; return two; }
      FunctionStmt("pick", <<>>,
          <<PrintStmt(StrLit("callee")), ReturnStmt(VariableExpr(117, "two"))>>),
      \* pick()(a = a + 1, a = a * 10);
      ExpressionStmt(CallExpr(CallExpr(VariableExpr(118, "pick"), <<>>),
          <<AssignExpr(119, "a", BinaryExpr(VariableExpr(120, "a"), "Plus", NumLit(1))),
            AssignExpr(121, "a", BinaryExpr(VariableExpr(122, "a"), "Star", NumLit(10)))>>)),
      \* print clock() > 0;
      PrintStmt(BinaryExpr(CallExpr(VariableExpr(123, "clock"), <<>>), "Greater", NumLit(0))),
      \* two(1);
      ExpressionStmt(CallExpr(VariableExpr(124, "two"), <<NumLit(1)>>))>>

\* A class whose initializer is inherited, called without its argument.
ArityInheritedScript ==
    <<\* class P { init(x) { print "init"; } }
      ClassStmt("P", None,
          <<FunctionStmt("init", <<"x">>, <<PrintStmt(StrLit("init"))>>)>>),
      \* class Q < P { }
      ClassStmt("Q", VariableExpr(125, "P"), <<>>),
      \* Q();
      ExpressionStmt(CallExpr(VariableExpr(126, "Q"), <<>>))>>

\* A class without an initializer, called with an argument: A(1);
ArityNoInitScript ==
    <<ClassA, ExpressionStmt(CallExpr(VariableExpr(127, "A"), <<NumLit(1)>>))>>

\* The native function called with an argument: clock(1);
ArityNativeScript ==
    <<GlobalA, ExpressionStmt(CallExpr(VariableExpr(128, "clock"), <<NumLit(1)>>))>>

\* An instance called: A()();
CallInstanceScript ==
    <<ClassA, ExpressionStmt(CallExpr(CallExpr(VariableExpr(129, "A"), <<>>), <<>>))>>

\* Prints, an assignment and a field write, the last three in the statement
\* that fails, and a statement after it.
FailFastScript ==
    <<GlobalA, ClassA,
      \* var s = A();
      VarStmt("s", CallExpr(VariableExpr(130, "A"), <<>>)),
      \* print "before";
      PrintStmt(StrLit("before")),
      \* { print "in"; a = 2; s.f = 7; print nil - 1; print "never"; }
      BlockStmt(<<PrintStmt(StrLit("in")),
                  ExpressionStmt(AssignExpr(131, "a", NumLit(2))),
                  ExpressionStmt(SetExpr(VariableExpr(132, "s"), "f", NumLit(7))),
                  PrintBinary(Nil, "Minus", Num(1)),
                  PrintStmt(StrLit("never"))>>),
      \* print "later";
      PrintStmt(StrLit("later"))>>

\* Two instances of one class: fields written on each, and a field of one that
\* hides a method the other still finds in the class.
FieldsScript ==
      \* class B { m() { return 1; } }
    <<ClassStmt("B", None, <<FunctionStmt("m", <<>>, <<ReturnStmt(NumLit(1))>>)>>),
      \* class C < B { }
      ClassStmt("C", VariableExpr(133, "B"), <<>>),
      \* var x = C();
      VarStmt("x", CallExpr(VariableExpr(134, "C"), <<>>)),
      \* var y = C();
      VarStmt("y", CallExpr(VariableExpr(135, "C"), <<>>)),
      \* x.f = 1;
      ExpressionStmt(SetExpr(VariableExpr(136, "x"), "f", NumLit(1))),
      \* y.f = 2;
      ExpressionStmt(SetExpr(VariableExpr(137, "y"), "f", NumLit(2))),
      \* x.m = 3;
      ExpressionStmt(SetExpr(VariableExpr(138, "x"), "m", NumLit(3))),
      \* print x.f;
      PrintStmt(GetExpr(VariableExpr(139, "x"), "f")),
      \* print y.f;
      PrintStmt(GetExpr(VariableExpr(140, "y"), "f")),
      \* print x.m;
      PrintStmt(GetExpr(VariableExpr(141, "x"), "m")),
      \* print y.m();
      PrintStmt(CallExpr(GetExpr(VariableExpr(142, "y"), "m"), <<>>)),
      \* print y.g;
      PrintStmt(GetExpr(VariableExpr(143, "y"), "g"))>>

\* Every statement a program can hold: the pool, then the statements of the
\* scripts.
Library ==
    Pool \o ScopeScript \o CounterScript \o FactorialScript \o InitScript \o ThisScript
         \o EchoScript \o PropertyScript \o EqualityScript \o UnequalScript
         \o EqualFunctionsScript \o PlusScript \o PlusNilScript \o PlusBoolScript
         \o SuperScript \o NumericScript \o MinusBoolScript \o GreaterBoolScript
         \o SlashNilScript \o StarStringScript \o SlashZeroScript \o ZeroSlashZeroScript
         \o LogicalScript \o TruthScript \o CallOrderScript \o ArityInheritedScript
         \o ArityNoInitScript \o ArityNativeScript \o CallInstanceScript \o FailFastScript
         \o FieldsScript

\* A script as a program: the places of its statements in the library.
Script(statements) ==
    [i \in DOMAIN statements |-> CHOOSE n \in DOMAIN Library : Library[n] = statements[i]]

Scripts ==
    {Script(statements) : statements \in
        {ScopeScript, CounterScript, FactorialScript, InitScript, ThisScript, EchoScript
         , PropertyScript, EqualityScript, UnequalScript, EqualFunctionsScript, PlusScript
         , PlusNilScript, PlusBoolScript, SuperScript, NumericScript, MinusBoolScript
         , GreaterBoolScript, SlashNilScript, StarStringScript, SlashZeroScript
         , ZeroSlashZeroScript, LogicalScript, TruthScript, CallOrderScript
         , ArityInheritedScript, ArityNoInitScript, ArityNativeScript, CallInstanceScript
         , FailFastScript, FieldsScript}}

Distinct(s) == \A i, j \in DOMAIN s : i # j => s[i] # s[j]

\* The programs: every sequence of up to MaxStmts different statements of the
\* pool, and the scripts.
Programs ==
    UNION {{s \in [1..n -> DOMAIN Pool] : Distinct(s)} : n \in 1..MaxStmts} \cup Scripts

Statements(p) == [i \in DOMAIN p |-> Library[p[i]]]

----------------------------------------------------------------------------
\* Parser (src/src/parser.rs): programs are given as trees; of the parser only
\* the rejection of `super` is modelled.

\* Does the text of the node hold the keyword super?
RECURSIVE MentionsSuper(_)
MentionsSuper(node) ==
    CASE node.t = "Super" -> TRUE
      [] node.t \in {"None", "Literal", "Variable", "This", "Break"} -> FALSE
      [] node.t = "Assign" -> MentionsSuper(node.value)
      [] node.t \in {"Binary", "Logical"} ->
             MentionsSuper(node.left) \/ MentionsSuper(node.right)
      [] node.t = "Unary" -> MentionsSuper(node.right)
      [] node.t = "Grouping" -> MentionsSuper(node.expression)
      [] node.t = "Call" ->
             \/ MentionsSuper(node.callee)
             \/ \E i \in DOMAIN node.arguments : MentionsSuper(node.arguments[i])
      [] node.t = "Get" -> MentionsSuper(node.object)
      [] node.t = "Set" -> MentionsSuper(node.object) \/ MentionsSuper(node.value)
      [] node.t = "Block" -> \E i \in DOMAIN node.statements : MentionsSuper(node.statements[i])
      [] node.t = "Class" ->
             \/ MentionsSuper(node.superclass)
             \/ \E i \in DOMAIN node.methods : MentionsSuper(node.methods[i])
      [] node.t \in {"Expression", "Print"} -> MentionsSuper(node.expression)
      [] node.t = "Function" -> \E i \in DOMAIN node.body : MentionsSuper(node.body[i])
      [] node.t = "If" ->
             \/ MentionsSuper(node.condition)
             \/ MentionsSuper(node.then_branch)
             \/ MentionsSuper(node.else_branch)
      [] node.t = "Return" -> MentionsSuper(node.value)
      [] node.t = "Var" -> MentionsSuper(node.initializer)
      [] node.t = "While" -> MentionsSuper(node.condition) \/ MentionsSuper(node.body)

\* Parser::primary has no arm for TokenType::Super, and `?` takes its
\* parse error out of Parser::parse.
Unparsable(statements) == \E i \in DOMAIN statements : MentionsSuper(statements[i])

----------------------------------------------------------------------------
\* Resolver (src/src/resolver.rs).

RTask(op, x) == [op |-> op, x |-> x]

\* One task per statement of a list, then `rest`: the body of the for loop of
\* Resolver::resolve, statement by statement.
RECURSIVE StmtTasks(_)
StmtTasks(statements) ==
    IF statements = <<>> THEN <<>>
    ELSE <<RTask("stmt", Head(statements))>> \o StmtTasks(Tail(statements))

RECURSIVE ExprTasks(_)
ExprTasks(exprs) ==
    IF exprs = <<>> THEN <<>>
    ELSE <<RTask("expr", Head(exprs))>> \o ExprTasks(Tail(exprs))

OptionTask(op, x) == IF x = None THEN <<>> ELSE <<RTask(op, x)>>

Innermost(sc) == sc[Len(sc)]

\* Resolver::begin_scope
BeginScope(sc) == Append(sc, EmptyMap)

\* Resolver::end_scope (Vec::pop on an empty vector does nothing)
EndScope(sc) == IF sc = <<>> THEN sc ELSE SubSeq(sc, 1, Len(sc) - 1)

\* The condition under which Resolver::declare reports a duplicate.
DeclareAnyScope(sc, name) == \E i \in DOMAIN sc : name \in DOMAIN sc[i]

DeclareError(sc, name) == sc # <<>> /\ name \in DOMAIN Innermost(sc)

\* Resolver::declare, the scopes it leaves.
Declare(sc, name) ==
    IF sc = <<>> THEN sc ELSE [sc EXCEPT ![Len(sc)] = Put(@, name, FALSE)]

\* Resolver::define
DefineNothing(sc, name) == sc

Define(sc, name) ==
    IF sc = <<>> THEN sc ELSE [sc EXCEPT ![Len(sc)] = Put(@, name, TRUE)]

\* Resolver::resolve_function, lines 239-242: one task per parameter.
RECURSIVE ParamTasks(_)
ParamTasks(params) ==
    IF params = <<>> THEN <<>>
    ELSE <<RTask("param", [t |-> "Name", name |-> Head(params)])>> \o ParamTasks(Tail(params))

\* What Resolver::declare reports.
DeclareReport(sc, name) ==
    IF DeclareError(sc, name)
       THEN <<"Already a variable with this name in this scope">> ELSE <<>>

\* The test of Resolver::visit_variable_expr, lines 154-161.
ReadsAnyUnready(sc, name) ==
    \E i \in DOMAIN sc : name \in DOMAIN sc[i] /\ sc[i][name] = FALSE

ReadsOwnInitializer(sc, name) ==
    sc # <<>> /\ name \in DOMAIN Innermost(sc) /\ Innermost(sc)[name] = FALSE

\* The loop of Resolver::resolve_local: scopes.iter().rev().enumerate(); -1 when
\* no scope holds the name.
RECURSIVE ScopeLevelFrom(_, _, _)
ScopeLevelFrom(sc, name, scope_level) ==
    IF scope_level >= Len(sc) THEN -1
    ELSE IF name \in DOMAIN sc[Len(sc) - scope_level] THEN scope_level
    ELSE ScopeLevelFrom(sc, name, scope_level + 1)

RECURSIVE ScopeIndexFrom(_, _, _)
ScopeIndexFrom(sc, name, i) ==
    IF i >= Len(sc) THEN -1
    ELSE IF name \in DOMAIN sc[i + 1] THEN i
    ELSE ScopeIndexFrom(sc, name, i + 1)

ScopeLevelNoRev(sc, name) == ScopeIndexFrom(sc, name, 0)

ScopeLevel(sc, name) == ScopeLevelFrom(sc, name, 0)

\* Resolver::resolve_local with Interpreter::resolve: the locals map it leaves.
ResolveLocal(sc, loc, id, name) ==
    IF ScopeLevel(sc, name) = -1 THEN loc ELSE Put(loc, id, ScopeLevel(sc, name))

RTop == Head(rstack)

RRest == Tail(rstack)

Resolving(op, t) == pc = "resolving" /\ rstack # <<>> /\ RTop.op = op /\ RTop.x.t = t

\* Resolver::error: sets had_error and reports.
Report(messages) ==
    /\ had_error' = (had_error \/ messages # <<>>)
    /\ diagnostics' = diagnostics \o messages

NoReport == UNCHANGED <<had_error, diagnostics>>

\* resolve() returns Ok once nothing is left to do.
Continue(stack) ==
    /\ rstack' = stack
    /\ pc' = IF stack = <<>> THEN "resolved" ELSE "resolving"
    /\ rresult' = IF stack = <<>> THEN "Ok" ELSE "none"

Interp == UNCHANGED <<interpreterVars, prog, passes>>

\* Parser::parse returns the parse error of Parser::primary: there is no
\* statement list to resolve or to interpret.
ParseError ==
    /\ pc = "idle"
    /\ Unparsable(Statements(prog))
    /\ pc' = "done"
    /\ diagnostics' = Append(diagnostics, "Expect expression.")
    /\ last' = [op |-> "parse_error"]
    /\ UNCHANGED <<scopes, current_function, in_loop, had_error, rstack, rresult,
                   resolved_top, locals>>
    /\ Interp

\* Resolver::resolve is called with the program.
Resolve ==
    /\ pc = "idle"
    /\ ~Unparsable(Statements(prog))
    /\ resolved_top' = 0
    /\ Continue(<<RTask("top", Statements(prog))>>)
    /\ last' = [op |-> "resolve"]
    /\ UNCHANGED <<scopes, current_function, in_loop, had_error, diagnostics, locals>>
    /\ Interp

\* The for loop of Resolver::resolve over the top-level statements.
ResolveNext ==
    /\ pc = "resolving" /\ rstack # <<>> /\ RTop.op = "top"
    /\ IF RTop.x = <<>>
          THEN /\ Continue(RRest)
               /\ UNCHANGED resolved_top
          ELSE /\ Continue(<<RTask("stmt", Head(RTop.x)), RTask("top", Tail(RTop.x))>> \o RRest)
               /\ resolved_top' = resolved_top + 1
    /\ last' = [op |-> "resolve_next"]
    /\ UNCHANGED <<scopes, current_function, in_loop, had_error, diagnostics, locals>>
    /\ Interp

RVisitBlockStmt ==
    /\ Resolving("stmt", "Block")
    /\ scopes' = BeginScope(scopes)
    /\ Continue(StmtTasks(RTop.x.statements) \o <<RTask("end_scope", None)>> \o RRest)
    /\ last' = [op |-> "begin_scope"]
    /\ UNCHANGED <<current_function, in_loop, had_error, diagnostics, locals, resolved_top>>
    /\ Interp

\* visit_block_stmt, line 60.
REndScope ==
    /\ Resolving("end_scope", "None")
    /\ scopes' = EndScope(scopes)
    /\ Continue(RRest)
    /\ last' = [op |-> "end_scope"]
    /\ UNCHANGED <<current_function, in_loop, had_error, diagnostics, locals, resolved_top>>
    /\ Interp

RVisitClassStmt ==
    /\ Resolving("stmt", "Class")
    /\ Report(DeclareReport(scopes, RTop.x.name))
    /\ scopes' = Define(Declare(scopes, RTop.x.name), RTop.x.name)
    /\ Continue(RRest)
    /\ last' = [op |-> "declare", name |-> RTop.x.name, by |-> "class"]
    /\ UNCHANGED <<current_function, in_loop, locals, resolved_top>>
    /\ Interp

RVisitVarStmt ==
    /\ Resolving("stmt", "Var")
    /\ Report(DeclareReport(scopes, RTop.x.name))
    /\ scopes' = Declare(scopes, RTop.x.name)
    /\ Continue(OptionTask("expr", RTop.x.initializer)
                \o <<RTask("define", [t |-> "Name", name |-> RTop.x.name])>> \o RRest)
    /\ last' = [op |-> "declare", name |-> RTop.x.name, by |-> "var"]
    /\ UNCHANGED <<current_function, in_loop, locals, resolved_top>>
    /\ Interp

\* visit_var_stmt, line 88.
RDefine ==
    /\ Resolving("define", "Name")
    /\ scopes' = Define(scopes, RTop.x.name)
    /\ Continue(RRest)
    /\ last' = [op |-> "define", name |-> RTop.x.name]
    /\ UNCHANGED <<current_function, in_loop, had_error, diagnostics, locals, resolved_top>>
    /\ Interp

\* visit_function_stmt with resolve_function up to begin_scope.
RVisitFunctionStmt ==
    /\ Resolving("stmt", "Function")
    /\ LET f == RTop.x
       IN /\ Report(DeclareReport(scopes, f.name))
          /\ scopes' = BeginScope(Define(Declare(scopes, f.name), f.name))
          /\ current_function' = "Function"
          /\ Continue(ParamTasks(f.params) \o StmtTasks(f.body)
                      \o <<RTask("end_function", [t |-> "Enclosing", was |-> current_function])>>
                      \o RRest)
          /\ last' = [op |-> "declare", name |-> f.name, by |-> "fun"]
    /\ UNCHANGED <<in_loop, locals, resolved_top>>
    /\ Interp

\* resolve_function, lines 240-241: declare and define one parameter.
RDeclareParam ==
    /\ Resolving("param", "Name")
    /\ Report(DeclareReport(scopes, RTop.x.name))
    /\ scopes' = Define(Declare(scopes, RTop.x.name), RTop.x.name)
    /\ Continue(RRest)
    /\ last' = [op |-> "declare", name |-> RTop.x.name, by |-> "param"]
    /\ UNCHANGED <<current_function, in_loop, locals, resolved_top>>
    /\ Interp

\* resolve_function, lines 246-247.
REndFunction ==
    /\ Resolving("end_function", "Enclosing")
    /\ scopes' = EndScope(scopes)
    /\ current_function' = RTop.x.was
    /\ Continue(RRest)
    /\ last' = [op |-> "end_function"]
    /\ UNCHANGED <<in_loop, had_error, diagnostics, locals, resolved_top>>
    /\ Interp

RVisitWhileStmt ==
    /\ Resolving("stmt", "While")
    /\ in_loop' = TRUE
    /\ Continue(<<RTask("expr", RTop.x.condition), RTask("stmt", RTop.x.body),
                  RTask("end_loop", [t |-> "Nesting", was |-> in_loop])>> \o RRest)
    /\ last' = [op |-> "visit_while"]
    /\ UNCHANGED <<scopes, current_function, had_error, diagnostics, locals, resolved_top>>
    /\ Interp

\* visit_while_stmt, line 96.
REndLoop ==
    /\ Resolving("end_loop", "Nesting")
    /\ in_loop' = RTop.x.was
    /\ Continue(RRest)
    /\ last' = [op |-> "end_loop"]
    /\ UNCHANGED <<scopes, current_function, had_error, diagnostics, locals, resolved_top>>
    /\ Interp

RVisitIfStmt ==
    /\ Resolving("stmt", "If")
    /\ Continue(<<RTask("expr", RTop.x.condition), RTask("stmt", RTop.x.then_branch)>>
                \o OptionTask("stmt", RTop.x.else_branch) \o RRest)
    /\ last' = [op |-> "visit_if"]
    /\ UNCHANGED <<scopes, current_function, in_loop, had_error, diagnostics, locals,
                   resolved_top>>
    /\ Interp

\* visit_print_stmt and visit_expression_stmt
RVisitPrintStmt ==
    /\ Resolving("stmt", "Print")
    /\ Continue(<<RTask("expr", RTop.x.expression)>> \o RRest)
    /\ last' = [op |-> "visit_print"]
    /\ UNCHANGED <<scopes, current_function, in_loop, had_error, diagnostics, locals,
                   resolved_top>>
    /\ Interp

RVisitExpressionStmt ==
    /\ Resolving("stmt", "Expression")
    /\ Continue(<<RTask("expr", RTop.x.expression)>> \o RRest)
    /\ last' = [op |-> "visit_expression"]
    /\ UNCHANGED <<scopes, current_function, in_loop, had_error, diagnostics, locals,
                   resolved_top>>
    /\ Interp

RVisitReturnStmt ==
    /\ Resolving("stmt", "Return")
    /\ Report(IF current_function = "None"
                 THEN <<"Can't return from top-level code.">> ELSE <<>>)
    /\ Continue(OptionTask("expr", RTop.x.value) \o RRest)
    /\ last' = [op |-> "visit_return", outside |-> (current_function = "None")]
    /\ UNCHANGED <<scopes, current_function, in_loop, locals, resolved_top>>
    /\ Interp

RVisitBreakStmt ==
    /\ Resolving("stmt", "Break")
    /\ Report(IF ~in_loop THEN <<"Can't break from top-level code.">> ELSE <<>>)
    /\ Continue(RRest)
    /\ last' = [op |-> "visit_break", outside |-> ~in_loop]
    /\ UNCHANGED <<scopes, current_function, in_loop, locals, resolved_top>>
    /\ Interp

\* visit_variable_expr: Err(resolver_error) leaves resolve() through every `?`
\* above it, so nothing that was pending runs; otherwise resolve_local.
RVisitVariableExpr ==
    /\ Resolving("expr", "Variable")
    /\ IF ReadsOwnInitializer(scopes, RTop.x.name)
          THEN /\ rstack' = <<>>
               /\ pc' = "resolved"
               /\ rresult' = "Err"
               /\ diagnostics' =
                      Append(diagnostics, "Can't read local variable in its own initializer.")
               /\ last' = [op |-> "reject", id |-> RTop.x.id, name |-> RTop.x.name]
               /\ UNCHANGED locals
          ELSE /\ Continue(RRest)
               /\ locals' = ResolveLocal(scopes, locals, RTop.x.id, RTop.x.name)
               /\ last' = [op |-> "resolve_local", id |-> RTop.x.id, name |-> RTop.x.name,
                           node |-> "Variable"]
               /\ UNCHANGED diagnostics
    /\ UNCHANGED <<scopes, current_function, in_loop, had_error, resolved_top>>
    /\ Interp

RVisitAssignExpr ==
    /\ Resolving("expr", "Assign")
    /\ Continue(<<RTask("expr", RTop.x.value),
                  RTask("local", [t |-> "Node", id |-> RTop.x.id, name |-> RTop.x.name])>>
                \o RRest)
    /\ last' = [op |-> "visit_assign"]
    /\ UNCHANGED <<scopes, current_function, in_loop, had_error, diagnostics, locals,
                   resolved_top>>
    /\ Interp

\* visit_assign_expr, line 117.
RResolveLocal ==
    /\ Resolving("local", "Node")
    /\ Continue(RRest)
    /\ locals' = ResolveLocal(scopes, locals, RTop.x.id, RTop.x.name)
    /\ last' = [op |-> "resolve_local", id |-> RTop.x.id, name |-> RTop.x.name,
                node |-> "Assign"]
    /\ UNCHANGED <<scopes, current_function, in_loop, had_error, diagnostics, resolved_top>>
    /\ Interp

RVisitBinaryExpr ==
    /\ Resolving("expr", "Binary")
    /\ Continue(<<RTask("expr", RTop.x.left), RTask("expr", RTop.x.right)>> \o RRest)
    /\ last' = [op |-> "visit_binary"]
    /\ UNCHANGED <<scopes, current_function, in_loop, had_error, diagnostics, locals,
                   resolved_top>>
    /\ Interp

RVisitCallExpr ==
    /\ Resolving("expr", "Call")
    /\ Continue(<<RTask("expr", RTop.x.callee)>> \o ExprTasks(RTop.x.arguments) \o RRest)
    /\ last' = [op |-> "visit_call"]
    /\ UNCHANGED <<scopes, current_function, in_loop, had_error, diagnostics, locals,
                   resolved_top>>
    /\ Interp

RVisitGetExpr ==
    /\ Resolving("expr", "Get")
    /\ Continue(<<RTask("expr", RTop.x.object)>> \o RRest)
    /\ last' = [op |-> "visit_get"]
    /\ UNCHANGED <<scopes, current_function, in_loop, had_error, diagnostics, locals,
                   resolved_top>>
    /\ Interp

RVisitSetExpr ==
    /\ Resolving("expr", "Set")
    /\ Continue(<<RTask("expr", RTop.x.value), RTask("expr", RTop.x.object)>> \o RRest)
    /\ last' = [op |-> "visit_set"]
    /\ UNCHANGED <<scopes, current_function, in_loop, had_error, diagnostics, locals,
                   resolved_top>>
    /\ Interp

RVisitLogicalExpr ==
    /\ Resolving("expr", "Logical")
    /\ Continue(<<RTask("expr", RTop.x.left), RTask("expr", RTop.x.right)>> \o RRest)
    /\ last' = [op |-> "visit_logical"]
    /\ UNCHANGED <<scopes, current_function, in_loop, had_error, diagnostics, locals,
                   resolved_top>>
    /\ Interp

RVisitGroupingExpr ==
    /\ Resolving("expr", "Grouping")
    /\ Continue(<<RTask("expr", RTop.x.expression)>> \o RRest)
    /\ last' = [op |-> "visit_grouping"]
    /\ UNCHANGED <<scopes, current_function, in_loop, had_error, diagnostics, locals,
                   resolved_top>>
    /\ Interp

RVisitUnaryExpr ==
    /\ Resolving("expr", "Unary")
    /\ Continue(<<RTask("expr", RTop.x.right)>> \o RRest)
    /\ last' = [op |-> "visit_unary"]
    /\ UNCHANGED <<scopes, current_function, in_loop, had_error, diagnostics, locals,
                   resolved_top>>
    /\ Interp

RVisitLiteralExpr ==
    /\ Resolving("expr", "Literal")
    /\ Continue(RRest)
    /\ last' = [op |-> "visit_literal"]
    /\ UNCHANGED <<scopes, current_function, in_loop, had_error, diagnostics, locals,
                   resolved_top>>
    /\ Interp

\* Resolver::success
Success == ~had_error

ResolverNext ==
    \/ Resolve \/ ResolveNext
    \/ RVisitBlockStmt \/ REndScope \/ RVisitClassStmt \/ RVisitVarStmt \/ RDefine
    \/ RVisitFunctionStmt \/ RDeclareParam \/ REndFunction
    \/ RVisitWhileStmt \/ REndLoop
    \/ RVisitIfStmt \/ RVisitPrintStmt \/ RVisitExpressionStmt
    \/ RVisitReturnStmt \/ RVisitBreakStmt
    \/ RVisitVariableExpr \/ RVisitAssignExpr \/ RResolveLocal
    \/ RVisitBinaryExpr \/ RVisitCallExpr \/ RVisitGetExpr \/ RVisitSetExpr
    \/ RVisitLogicalExpr \/ RVisitGroupingExpr \/ RVisitUnaryExpr
    \/ RVisitLiteralExpr

\* The same Resolver is handed one more statement list (a further line of the
\* prompt): Resolver::resolve takes &self and resets nothing.
ResolveAgain ==
    /\ pc = "resolved"
    /\ passes < MaxPasses
    /\ \E p \in Programs :
          /\ Len(p) = 1
          /\ \A i \in DOMAIN prog : prog[i] # p[1]
          /\ prog' = p
    /\ passes' = passes + 1
    /\ pc' = "idle"
    /\ rresult' = "none"
    /\ last' = [op |-> "resolve_again"]
    /\ UNCHANGED <<scopes, current_function, in_loop, had_error, rstack, resolved_top,
                   diagnostics, locals, interpreterVars>>

----------------------------------------------------------------------------
\* Environment (src/src/environment.rs).  An environment is named by its index
\* in `envs`; enclosing = 0 is None.

\* Environment::new_with_enclosing
NewWithEnclosing(enclosing) == [values |-> EmptyMap, enclosing |-> enclosing]

\* Environment::define
EnvDefineThrough(es, e, name, value) ==
    [i \in DOMAIN es |->
        IF i = e \/ i = es[e].enclosing THEN [es[i] EXCEPT !.values = Put(@, name, value)]
        ELSE es[i]]

EnvDefine(es, e, name, value) == [es EXCEPT ![e].values = Put(@, name, value)]

\* The walk of get_at / assign_at: the environment `distance` links up, 0 when
\* the chain ends first (enclosing.as_ref().unwrap() panics).
RECURSIVE Ancestor(_, _, _)
Ancestor(es, e, distance) ==
    IF distance = 0 THEN e
    ELSE IF es[e].enclosing = 0 THEN 0
    ELSE Ancestor(es, es[e].enclosing, distance - 1)

\* Environment::get_at; ok = FALSE is the panic of an unwrap on None.
GetAtCurrent(es, e, distance, name) ==
    IF name \notin DOMAIN es[e].values
       THEN [ok |-> FALSE, v |-> Nil]
       ELSE [ok |-> TRUE, v |-> es[e].values[name]]

GetAt(es, e, distance, name) ==
    LET a == Ancestor(es, e, distance)
    IN IF a = 0 \/ name \notin DOMAIN es[a].values
          THEN [ok |-> FALSE, v |-> Nil]
          ELSE [ok |-> TRUE, v |-> es[a].values[name]]

\* Environment::assign_at
AssignAtCurrent(es, e, distance, name, value) ==
    [ok |-> TRUE, envs |-> EnvDefine(es, e, name, value)]

AssignAt(es, e, distance, name, value) ==
    LET a == Ancestor(es, e, distance)
    IN IF a = 0 THEN [ok |-> FALSE, envs |-> es]
       ELSE [ok |-> TRUE, envs |-> EnvDefine(es, a, name, value)]

\* Environment::get; ok = FALSE is Err("Undefined variable").
RECURSIVE EnvGet(_, _, _)
EnvGet(es, e, name) ==
    IF name \in DOMAIN es[e].values THEN [ok |-> TRUE, v |-> es[e].values[name]]
    ELSE IF es[e].enclosing # 0 THEN EnvGet(es, es[e].enclosing, name)
    ELSE [ok |-> FALSE, v |-> Nil]

\* Environment::assign; ok = FALSE is Err("Underfined variable").
RECURSIVE EnvAssign(_, _, _, _)
EnvAssign(es, e, name, value) ==
    IF name \in DOMAIN es[e].values THEN [ok |-> TRUE, envs |-> EnvDefine(es, e, name, value)]
    ELSE IF es[e].enclosing # 0 THEN EnvAssign(es, es[e].enclosing, name, value)
    ELSE [ok |-> FALSE, envs |-> es]

----------------------------------------------------------------------------
\* Values (src/src/token.rs, src/src/interpreter.rs).

\* Interpreter::is_truthy
IsTruthyOfContent(object) == object \notin {Nil, Bool(FALSE), Num(0), Str("")}

IsTruthy(object) == ~(object = Nil \/ object = Bool(FALSE))

\* Interpreter::is_equal; an ErrorMessage is its Err.
IsEqual(left, right) ==
    IF left.k = "Nil" /\ right.k = "Nil" THEN Bool(TRUE)
    ELSE IF left.k = "Nil" \/ right.k = "Nil" THEN Bool(FALSE)
    ELSE IF left.k = right.k /\ left.k \in {"Num", "Str", "Bool"} THEN Bool(left.v = right.v)
    ELSE ErrorMessage("Cannot compare objects of different types.")

\* The join(", ") of LoxFunction's Display.
RECURSIVE Join(_)
Join(names) ==
    IF names = <<>> THEN ""
    ELSE IF Len(names) = 1 THEN names[1]
    ELSE names[1] \o ", " \o Join(Tail(names))

\* impl fmt::Display for Object, LoxFunction and LoxNative
Display(object) ==
    CASE object.k = "Num" -> ToString(object.v)
      [] object.k = "Str" -> object.v
      [] object.k = "Bool" -> IF object.v THEN "true" ELSE "false"
      [] object.k = "Nil" -> "nil"
      [] object.k = "Function" ->
             "<Function " \o object.v.declaration.name \o "("
                 \o Join(object.v.declaration.params) \o ")>"
      [] object.k = "Native" -> "<Native Function>"

\* impl Add for Object
Add(left, right) ==
    IF left.k = "Num" /\ right.k = "Num" THEN Num(left.v + right.v)
    ELSE IF left.k \in {"Num", "Str"} /\ right.k \in {"Num", "Str"}
         THEN Str(Display(left) \o Display(right))
    ELSE ErrorMessage("Operants must be numbers or strings.")

\* impl Sub for Object
Sub(left, right) ==
    IF left.k = "Num" /\ right.k = "Num" THEN Num(left.v - right.v)
    ELSE ErrorMessage("Operands must be numbers.")

\* impl Div for Object
DivUnchecked(left, right) ==
    IF left.k = "Num" /\ right.k = "Num"
       THEN Num(IF right.v = 0 THEN 0 ELSE left.v \div right.v)
    ELSE ErrorMessage("Operands must be numbers.")

\* impl Div for Object.  The quotient of f64 is written for the operands the
\* programs use, where it is a whole number.
Div(left, right) ==
    IF left.k = "Num" /\ right.k = "Num"
       THEN (IF right.v = 0 THEN ErrorMessage("Cannot divide by zero.")
             ELSE Num(left.v \div right.v))
    ELSE ErrorMessage("Operands must be numbers.")

\* String::repeat
RECURSIVE Repeat(_, _)
Repeat(s, n) == IF n <= 0 THEN "" ELSE s \o Repeat(s, n - 1)

\* impl Mul for Object
Mul(left, right) ==
    IF left.k = "Num" /\ right.k = "Num" THEN Num(left.v * right.v)
    ELSE IF left.k = "Str" /\ right.k = "Num" THEN Str(Repeat(left.v, right.v))
    ELSE ErrorMessage("Operands must be numbers or a string and a number.")

\* Object::compare
Compare(left, operator, right) ==
    IF ~(left.k = "Num" /\ right.k = "Num") THEN ErrorMessage("Operands must be numbers.")
    ELSE CASE operator = "Greater" -> Bool(left.v > right.v)
           [] operator = "GreaterEqual" -> Bool(left.v >= right.v)
           [] operator = "Less" -> Bool(left.v < right.v)
           [] operator = "LessEqual" -> Bool(left.v <= right.v)

\* The match of Interpreter::visit_binary_expr, lines 241-259.
BinaryResult(operator, left, right) ==
    CASE operator = "Minus" -> Sub(left, right)
      [] operator = "Slash" -> Div(left, right)
      [] operator = "Star" -> Mul(left, right)
      [] operator = "Plus" -> Add(left, right)
      [] operator \in {"Greater", "GreaterEqual", "Less", "LessEqual"} ->
             Compare(left, operator, right)
      [] operator = "BangEqual" ->
             IF IsEqual(left, right).k = "Bool" THEN Bool(~IsEqual(left, right).v)
             ELSE IsEqual(left, right)
      [] operator = "EqualEqual" -> IsEqual(left, right)

\* The match of Interpreter::visit_unary_expr, lines 269-276.
UnaryResult(operator, right) ==
    CASE operator = "Minus" ->
             IF right.k = "Num" THEN Num(0 - right.v)
             ELSE ErrorMessage("Operand must be number.")
      [] operator = "Bang" -> Bool(~IsTruthy(right))

\* Interpreter::visit_logical_expr, lines 207-213: does the value of the left
\* operand end the evaluation?
ShortCircuitsNever(operator, left) == FALSE

ShortCircuits(operator, left) ==
    IF operator = "Or" THEN IsTruthy(left) ELSE ~IsTruthy(left)

----------------------------------------------------------------------------
\* Interpreter (src/src/interpreter.rs) and LoxFunction::call.

\* LoxResult values travelling as Err.  A Break remembers the statement that
\* raised it; LoxResult::Break itself carries nothing.
Break(id) == [k |-> "Break", v |-> id]

ReturnValue(value) == [k |-> "Return", v |-> value]

RuntimeError(message) == [k |-> "LoxRuntimeError", v |-> message]

Exec(stmt) == [m |-> "exec", x |-> stmt]

Eval(expr) == [m |-> "eval", x |-> expr]

Ok == [m |-> "ok", x |-> Nil]

Val(value) == [m |-> "val", x |-> value]

Err(e) == [m |-> "err", x |-> e]

Top == Head(kont)

Executing(t) == pc = "running" /\ ctl.m = "exec" /\ ctl.x.t = t

Evaluating(t) == pc = "running" /\ ctl.m = "eval" /\ ctl.x.t = t

Returning(m, f) == pc = "running" /\ ctl.m = m /\ kont # <<>> /\ Top.f = f

Push(frame) == kont' = <<frame>> \o kont

Pop == kont' = Tail(kont)

Replace(frame) == kont' = <<frame>> \o Tail(kont)

Res == UNCHANGED <<prog, passes, scopes, current_function, in_loop, had_error, rstack,
                   rresult, resolved_top, locals>>

\* The driver hands the program to interpret() only after a pass that returned
\* Ok and recorded no error.
Run ==
    /\ pc = "resolved" /\ rresult = "Ok" /\ Success
    /\ pc' = "running"
    /\ kont' = <<[f |-> "interpret", rest |-> Statements(prog)]>>
    /\ ctl' = Ok
    /\ last' = [op |-> "interpret"]
    /\ UNCHANGED <<envs, environment, output, success, exits, instances, diagnostics>>
    /\ Res

\* Interpreter::interpret, lines 358-365: the value it returns once a statement
\* has returned `result`.
InterpretSuccessAlways(result) == TRUE

InterpretSuccess(result) == result.m # "err"

\* Interpreter::interpret: the next top-level statement, or true at the end.
InterpretNext ==
    /\ Returning("ok", "interpret")
    /\ IF Top.rest = <<>>
          THEN /\ success' = InterpretSuccess(ctl)
               /\ pc' = "done"
               /\ Pop
               /\ UNCHANGED ctl
          ELSE /\ ctl' = Exec(Head(Top.rest))
               /\ Replace([Top EXCEPT !.rest = Tail(@)])
               /\ UNCHANGED <<success, pc>>
    /\ last' = [op |-> "interpret_next"]
    /\ UNCHANGED <<envs, environment, output, exits, instances, diagnostics>>
    /\ Res

\* Interpreter::interpret, lines 360-363: any Err ends the run.
InterpretErr ==
    /\ Returning("err", "interpret")
    /\ success' = InterpretSuccess(ctl)
    /\ pc' = "done"
    /\ Pop
    /\ last' = [op |-> "interpret_err", signal |-> ctl.x.k]
    /\ UNCHANGED <<ctl, envs, environment, output, exits, instances, diagnostics>>
    /\ Res

\* Interpreter::execute_block, line 320: the frame remembers `previous`.
ExecuteBlockFrame(statements) ==
    [f |-> "execute_block", rest |-> statements, previous |-> environment]

\* Interpreter::execute_block, line 324: what the environment cell holds after
\* the call, whatever `result` is.
RestoredOnOkOnly(previous, current, result) ==
    IF result = "ok" THEN previous ELSE current

Restored(previous, current, result) == previous

RunEnvs == pc' = pc /\ UNCHANGED <<output, success, exits, instances, diagnostics>> /\ Res

RunCtl == pc' = pc /\ UNCHANGED <<envs, environment, output, success, exits, instances, diagnostics>> /\ Res

VisitBlockStmt ==
    /\ Executing("Block")
    /\ Len(envs) < MaxEnvs
    /\ envs' = Append(envs, NewWithEnclosing(environment))
    /\ environment' = Len(envs) + 1
    /\ Push(ExecuteBlockFrame(ctl.x.statements))
    /\ ctl' = Ok
    /\ last' = [op |-> "execute_block", previous |-> environment]
    /\ RunEnvs

\* execute_block, lines 321-323: try_for_each runs the next statement.
ExecuteBlockNext ==
    /\ Returning("ok", "execute_block")
    /\ Top.rest # <<>>
    /\ ctl' = Exec(Head(Top.rest))
    /\ Replace([Top EXCEPT !.rest = Tail(@)])
    /\ last' = [op |-> "execute_block_next"]
    /\ RunCtl

\* execute_block, lines 324-326: the list is done or a statement returned Err.
ExecuteBlockExit ==
    /\ pc = "running" /\ kont # <<>> /\ Top.f = "execute_block"
    /\ \/ ctl.m = "ok" /\ Top.rest = <<>>
       \/ ctl.m = "err"
    /\ environment' = Restored(Top.previous, environment, ctl.m)
    /\ Pop
    /\ last' = [op |-> "execute_block_exit", previous |-> Top.previous,
                by |-> IF ctl.m = "ok" THEN "Ok" ELSE ctl.x.k]
    /\ exits' = exits \cup {IF ctl.m = "ok" THEN "Ok" ELSE ctl.x.k}
    /\ pc' = pc
    /\ UNCHANGED <<ctl, envs, output, success, instances, diagnostics>>
    /\ Res

VisitVarStmt ==
    /\ Executing("Var")
    /\ IF ctl.x.initializer = None
          THEN /\ envs' = EnvDefine(envs, environment, ctl.x.name, Nil)
               /\ ctl' = Ok
               /\ UNCHANGED kont
          ELSE /\ Push([f |-> "var", name |-> ctl.x.name])
               /\ ctl' = Eval(ctl.x.initializer)
               /\ UNCHANGED envs
    /\ last' = [op |-> "visit_var"]
    /\ UNCHANGED environment
    /\ RunEnvs

\* visit_var_stmt, lines 115-118.
VarDefine ==
    /\ Returning("val", "var")
    /\ envs' = EnvDefine(envs, environment, Top.name, ctl.x)
    /\ ctl' = Ok
    /\ Pop
    /\ last' = [op |-> "define_var", name |-> Top.name]
    /\ UNCHANGED environment
    /\ RunEnvs

VisitExpressionStmt ==
    /\ Executing("Expression")
    /\ Push([f |-> "expression"])
    /\ ctl' = Eval(ctl.x.expression)
    /\ last' = [op |-> "visit_expression"]
    /\ RunCtl

ExpressionDone ==
    /\ Returning("val", "expression")
    /\ ctl' = Ok
    /\ Pop
    /\ last' = [op |-> "expression_done"]
    /\ RunCtl

VisitPrintStmt ==
    /\ Executing("Print")
    /\ Push([f |-> "print"])
    /\ ctl' = Eval(ctl.x.expression)
    /\ last' = [op |-> "visit_print"]
    /\ RunCtl

\* visit_print_stmt, line 105.
PrintLine ==
    /\ Returning("val", "print")
    /\ output' = Append(output, Display(ctl.x))
    /\ ctl' = Ok
    /\ Pop
    /\ last' = [op |-> "print", value |-> ctl.x]
    /\ pc' = pc
    /\ UNCHANGED <<envs, environment, success, exits, instances, diagnostics>>
    /\ Res

VisitIfStmt ==
    /\ Executing("If")
    /\ Push([f |-> "if", then_branch |-> ctl.x.then_branch, else_branch |-> ctl.x.else_branch])
    /\ ctl' = Eval(ctl.x.condition)
    /\ last' = [op |-> "visit_if"]
    /\ RunCtl

\* visit_if_stmt, lines 94-100.
IfBranch ==
    /\ Returning("val", "if")
    /\ ctl' = IF IsTruthy(ctl.x) THEN Exec(Top.then_branch)
              ELSE IF Top.else_branch # None THEN Exec(Top.else_branch)
              ELSE Ok
    /\ Pop
    /\ last' = [op |-> "if_branch"]
    /\ RunCtl

VisitWhileStmt ==
    /\ Executing("While")
    /\ Push([f |-> "while_condition", stmt |-> ctl.x])
    /\ ctl' = Eval(ctl.x.condition)
    /\ last' = [op |-> "visit_while", loop |-> ctl.x.id]
    /\ RunCtl

\* visit_while_stmt, line 123: the condition has been evaluated.
WhileCondition ==
    /\ Returning("val", "while_condition")
    /\ IF IsTruthy(ctl.x)
          THEN /\ ctl' = Exec(Top.stmt.body)
               /\ Replace([Top EXCEPT !.f = "while_body"])
          ELSE /\ ctl' = Ok
               /\ Pop
    /\ last' = [op |-> "while_condition", loop |-> Top.stmt.id, value |-> IsTruthy(ctl.x)]
    /\ RunCtl

\* visit_while_stmt, line 127: Ok(_) => {} and the condition is evaluated again.
WhileBody ==
    /\ Returning("ok", "while_body")
    /\ ctl' = Eval(Top.stmt.condition)
    /\ Replace([Top EXCEPT !.f = "while_condition"])
    /\ last' = [op |-> "while_again", loop |-> Top.stmt.id]
    /\ RunCtl

\* The arm of visit_while_stmt that ends the loop, line 125.
EndsLoopNever(signal) == FALSE

EndsLoop(signal) == signal.k = "Break"

WhileBreak ==
    /\ Returning("err", "while_body")
    /\ EndsLoop(ctl.x)
    /\ ctl' = Ok
    /\ Pop
    /\ last' = [op |-> "while_break", loop |-> Top.stmt.id, by |-> ctl.x.v]
    /\ RunCtl

VisitBreakStmt ==
    /\ Executing("Break")
    /\ ctl' = Err(Break(ctl.x.id))
    /\ last' = [op |-> "visit_break", id |-> ctl.x.id]
    /\ UNCHANGED kont
    /\ RunCtl

VisitReturnStmt ==
    /\ Executing("Return")
    /\ IF ctl.x.value = None
          THEN /\ ctl' = Err(ReturnValue(Nil))
               /\ UNCHANGED kont
          ELSE /\ Push([f |-> "return"])
               /\ ctl' = Eval(ctl.x.value)
    /\ last' = [op |-> "visit_return"]
    /\ RunCtl

\* visit_return_stmt, line 64.
ReturnSignal ==
    /\ Returning("val", "return")
    /\ ctl' = Err(ReturnValue(ctl.x))
    /\ Pop
    /\ last' = [op |-> "return", value |-> ctl.x]
    /\ RunCtl

VisitFunctionStmt ==
    /\ Executing("Function")
    /\ envs' = EnvDefine(envs, environment, ctl.x.name, LoxFunction(ctl.x, environment, FALSE))
    /\ ctl' = Ok
    /\ last' = [op |-> "visit_function", name |-> ctl.x.name]
    /\ UNCHANGED <<kont, environment>>
    /\ RunEnvs

\* visit_class_stmt, lines 44-54: the method table; every method closes over
\* the current environment.
RECURSIVE Methods(_, _)
Methods(methods, closure) ==
    IF methods = <<>> THEN EmptyMap
    ELSE Put(Methods(SubSeq(methods, 1, Len(methods) - 1), closure),
             methods[Len(methods)].name,
             LoxFunction(methods[Len(methods)], closure, methods[Len(methods)].name = "init"))

\* visit_class_stmt, lines 42-58: define the name as nil, then assign the class.
DefineClass(es, e, stmt, superclass) ==
    EnvAssign(EnvDefine(es, e, stmt.name, Nil), e, stmt.name,
              LoxClass(stmt.name, superclass, Methods(stmt.methods, e))).envs

VisitClassStmt ==
    /\ Executing("Class")
    /\ IF ctl.x.superclass = None
          THEN /\ envs' = DefineClass(envs, environment, ctl.x, Nil)
               /\ ctl' = Ok
               /\ UNCHANGED kont
          ELSE /\ Push([f |-> "class", stmt |-> ctl.x])
               /\ ctl' = Eval(ctl.x.superclass)
               /\ UNCHANGED envs
    /\ last' = [op |-> "visit_class", name |-> ctl.x.name]
    /\ UNCHANGED environment
    /\ RunEnvs

\* visit_class_stmt, lines 25-37: the superclass expression has a value.
ClassSuperclass ==
    /\ Returning("val", "class")
    /\ IF ctl.x.k = "Class"
          THEN /\ envs' = DefineClass(envs, environment, Top.stmt, ctl.x)
               /\ ctl' = Ok
               /\ pc' = pc
               /\ UNCHANGED diagnostics
          ELSE IF Top.stmt.superclass.t = "Variable"
          THEN /\ ctl' = Err(RuntimeError("Superclass must be a class."))
               /\ diagnostics' = Append(diagnostics, "Superclass must be a class.")
               /\ pc' = pc
               /\ UNCHANGED envs
          ELSE /\ ctl' = [m |-> "panic", x |-> Nil]
               /\ pc' = "done"
               /\ UNCHANGED <<envs, diagnostics>>
    /\ Pop
    /\ last' = [op |-> "class_superclass", name |-> Top.stmt.name]
    /\ UNCHANGED <<environment, output, success, exits, instances>>
    /\ Res

VisitLiteralExpr ==
    /\ Evaluating("Literal")
    /\ ctl' = Val(ctl.x.value)
    /\ last' = [op |-> "visit_literal"]
    /\ UNCHANGED kont
    /\ RunCtl

\* The environment look_up_variable and visit_assign_expr search by name for a
\* node without an entry in locals (lines 353 and 194).
CurrentScope(current) == current

GlobalScope(current) == 1

\* Interpreter::look_up_variable
VisitVariableExpr ==
    /\ Evaluating("Variable")
    /\ IF ctl.x.id \in DOMAIN locals
          THEN LET r == GetAt(envs, environment, locals[ctl.x.id], ctl.x.name)
               IN /\ ctl' = IF r.ok THEN Val(r.v) ELSE [m |-> "panic", x |-> Nil]
                  /\ pc' = IF r.ok THEN pc ELSE "done"
                  /\ UNCHANGED diagnostics
          ELSE LET r == EnvGet(envs, GlobalScope(environment), ctl.x.name)
               IN /\ ctl' = IF r.ok THEN Val(r.v) ELSE Err(RuntimeError("Undefined variable"))
                  /\ diagnostics' = IF r.ok THEN diagnostics
                                    ELSE Append(diagnostics, "Undefined variable")
                  /\ pc' = pc
    /\ last' = [op |-> "look_up_variable", id |-> ctl.x.id, name |-> ctl.x.name,
                resolved |-> ctl.x.id \in DOMAIN locals]
    /\ UNCHANGED <<kont, envs, environment, output, success, exits, instances>>
    /\ Res

VisitAssignExpr ==
    /\ Evaluating("Assign")
    /\ Push([f |-> "assign", id |-> ctl.x.id, name |-> ctl.x.name])
    /\ ctl' = Eval(ctl.x.value)
    /\ last' = [op |-> "visit_assign"]
    /\ RunCtl

\* visit_assign_expr, lines 188-197.
AssignValue ==
    /\ Returning("val", "assign")
    /\ IF Top.id \in DOMAIN locals
          THEN LET r == AssignAt(envs, environment, locals[Top.id], Top.name, ctl.x)
               IN /\ envs' = r.envs
                  /\ ctl' = IF r.ok THEN ctl ELSE [m |-> "panic", x |-> Nil]
                  /\ pc' = IF r.ok THEN pc ELSE "done"
                  /\ UNCHANGED diagnostics
          ELSE LET r == EnvAssign(envs, GlobalScope(environment), Top.name, ctl.x)
               IN /\ envs' = r.envs
                  /\ ctl' = IF r.ok THEN ctl ELSE Err(RuntimeError("Underfined variable"))
                  /\ diagnostics' = IF r.ok THEN diagnostics
                                    ELSE Append(diagnostics, "Underfined variable")
                  /\ pc' = pc
    /\ Pop
    /\ last' = [op |-> "assign", id |-> Top.id, name |-> Top.name,
                resolved |-> Top.id \in DOMAIN locals, value |-> ctl.x]
    /\ UNCHANGED <<environment, output, success, exits, instances>>
    /\ Res

VisitBinaryExpr ==
    /\ Evaluating("Binary")
    /\ Push([f |-> "binary_left", operator |-> ctl.x.operator, right |-> ctl.x.right])
    /\ ctl' = Eval(ctl.x.left)
    /\ last' = [op |-> "visit_binary"]
    /\ RunCtl

\* visit_binary_expr, line 239.
BinaryLeft ==
    /\ Returning("val", "binary_left")
    /\ Replace([f |-> "binary_right", operator |-> Top.operator, left |-> ctl.x])
    /\ ctl' = Eval(Top.right)
    /\ last' = [op |-> "binary_left"]
    /\ RunCtl

\* visit_binary_expr, lines 241-264.
BinaryRight ==
    /\ Returning("val", "binary_right")
    /\ LET result == BinaryResult(Top.operator, Top.left, ctl.x)
       IN /\ ctl' = IF result.k = "ErrorMessage" THEN Err(RuntimeError(result.v))
                    ELSE Val(result)
          /\ diagnostics' = IF result.k = "ErrorMessage" THEN Append(diagnostics, result.v)
                            ELSE diagnostics
    /\ Pop
    /\ last' = [op |-> "binary", operator |-> Top.operator, left |-> Top.left,
                right |-> ctl.x]
    /\ pc' = pc
    /\ UNCHANGED <<envs, environment, output, success, exits, instances>>
    /\ Res

\* visit_logical_expr, line 205.
VisitLogicalExpr ==
    /\ Evaluating("Logical")
    /\ Push([f |-> "logical", operator |-> ctl.x.operator, right |-> ctl.x.right])
    /\ ctl' = Eval(ctl.x.left)
    /\ last' = [op |-> "visit_logical"]
    /\ RunCtl

\* visit_logical_expr, lines 207-215: the left value is returned, or the right
\* operand is evaluated in its place.
LogicalLeft ==
    /\ Returning("val", "logical")
    /\ ctl' = IF ShortCircuits(Top.operator, ctl.x) THEN ctl ELSE Eval(Top.right)
    /\ Pop
    /\ last' = [op |-> "logical", operator |-> Top.operator, left |-> ctl.x,
                right |-> Top.right]
    /\ RunCtl

\* visit_grouping_expr
VisitGroupingExpr ==
    /\ Evaluating("Grouping")
    /\ ctl' = Eval(ctl.x.expression)
    /\ last' = [op |-> "visit_grouping"]
    /\ UNCHANGED kont
    /\ RunCtl

\* visit_unary_expr, line 268.
VisitUnaryExpr ==
    /\ Evaluating("Unary")
    /\ Push([f |-> "unary", operator |-> ctl.x.operator])
    /\ ctl' = Eval(ctl.x.right)
    /\ last' = [op |-> "visit_unary"]
    /\ RunCtl

\* visit_unary_expr, lines 269-281.
UnaryRight ==
    /\ Returning("val", "unary")
    /\ LET result == UnaryResult(Top.operator, ctl.x)
       IN /\ ctl' = IF result.k = "ErrorMessage" THEN Err(RuntimeError(result.v))
                    ELSE Val(result)
          /\ diagnostics' = IF result.k = "ErrorMessage" THEN Append(diagnostics, result.v)
                            ELSE diagnostics
    /\ Pop
    /\ last' = [op |-> "unary", operator |-> Top.operator, right |-> ctl.x]
    /\ pc' = pc
    /\ UNCHANGED <<envs, environment, output, success, exits, instances>>
    /\ Res

\* visit_call_expr, line 141.
VisitCallExpr ==
    /\ Evaluating("Call")
    /\ Push([f |-> "call_callee", arguments |-> ctl.x.arguments])
    /\ ctl' = Eval(ctl.x.callee)
    /\ last' = [op |-> "visit_call"]
    /\ RunCtl

\* visit_call_expr, line 143: the callee is known, the arguments follow.
CallCallee ==
    /\ Returning("val", "call_callee")
    /\ Replace([f |-> "call", callee |-> ctl.x, arguments |-> <<>>, rest |-> Top.arguments])
    /\ ctl' = [m |-> "args", x |-> Nil]
    /\ last' = [op |-> "callee"]
    /\ RunCtl

\* visit_call_expr, lines 144-146.
CallNextArgument ==
    /\ Returning("args", "call")
    /\ Top.rest # <<>>
    /\ ctl' = Eval(Head(Top.rest))
    /\ Replace([Top EXCEPT !.rest = Tail(@)])
    /\ last' = [op |-> "next_argument"]
    /\ RunCtl

CallArgument ==
    /\ Returning("val", "call")
    /\ Replace([Top EXCEPT !.arguments = Append(@, ctl.x)])
    /\ ctl' = [m |-> "args", x |-> Nil]
    /\ last' = [op |-> "argument"]
    /\ RunCtl

\* LoxClass::find_method; Nil is None.
RECURSIVE FindMethod(_, _)
FindMethod(class, name) ==
    IF name \in DOMAIN class.methods THEN class.methods[name]
    ELSE IF class.superclass # Nil THEN FindMethod(class.superclass.v, name)
    ELSE Nil

\* LoxCallable::arity of LoxFunction, NativeClock and LoxClass
ArityOfOwnInit(callee) ==
    CASE callee.k = "Function" -> Len(callee.v.declaration.params)
      [] callee.k = "Native" -> 0
      [] callee.k = "Class" ->
             IF "init" \in DOMAIN callee.v.methods
                THEN Len(callee.v.methods["init"].v.declaration.params)
                ELSE 0

Arity(callee) ==
    CASE callee.k = "Function" -> Len(callee.v.declaration.params)
      [] callee.k = "Native" -> 0
      [] callee.k = "Class" ->
             IF FindMethod(callee.v, "init").k = "Function"
                THEN Len(FindMethod(callee.v, "init").v.declaration.params)
                ELSE 0

\* visit_call_expr, lines 148-156: the values that are callable.
IsCallable(callee) == callee.k \in {"Function", "Native", "Class"}

\* visit_call_expr, lines 166-170.
CallNotCallable ==
    /\ Returning("args", "call")
    /\ Top.rest = <<>>
    /\ ~IsCallable(Top.callee)
    /\ ctl' = Err(RuntimeError("Can only call functions and classes."))
    /\ diagnostics' = Append(diagnostics, "Can only call functions and classes.")
    /\ Pop
    /\ last' = [op |-> "not_callable"]
    /\ pc' = pc
    /\ UNCHANGED <<envs, environment, output, success, exits, instances>>
    /\ Res

\* visit_call_expr, lines 159-164.
CallArityError ==
    /\ Returning("args", "call")
    /\ Top.rest = <<>>
    /\ IsCallable(Top.callee)
    /\ Len(Top.arguments) # Arity(Top.callee)
    /\ ctl' = Err(RuntimeError("Expected arguments"))
    /\ diagnostics' = Append(diagnostics, "Expected arguments")
    /\ Pop
    /\ last' = [op |-> "arity_error"]
    /\ pc' = pc
    /\ UNCHANGED <<envs, environment, output, success, exits, instances>>
    /\ Res

\* The milliseconds NativeClock::call can read from the system clock.
Clock == {1, 2}

\* NativeClock::call: the time of the call.
CallNative ==
    /\ Returning("args", "call")
    /\ Top.rest = <<>>
    /\ Top.callee.k = "Native"
    /\ Len(Top.arguments) = Arity(Top.callee)
    /\ \E n \in Clock : ctl' = Val(Num(n))
    /\ Pop
    /\ last' = [op |-> "call_native"]
    /\ RunCtl

\* LoxFunction::call, lines 76-78: params.iter().zip(arguments.iter()).
RECURSIVE BindParams(_, _, _)
BindParams(values, params, arguments) ==
    IF params = <<>> \/ arguments = <<>> THEN values
    ELSE BindParams(Put(values, Head(params), Head(arguments)), Tail(params), Tail(arguments))

\* The enclosing environment of the environment a call runs in, line 74.
CallerEnclosing(function, current) == current

CallEnclosing(function, current) == function.closure

\* LoxFunction::call, lines 74-80.
CallFunction ==
    /\ Returning("args", "call")
    /\ Top.rest = <<>>
    /\ Top.callee.k = "Function"
    /\ Len(Top.arguments) = Arity(Top.callee)
    /\ Len(envs) < MaxEnvs
    /\ LET function == Top.callee.v
       IN /\ envs' = Append(envs,
                 [values |-> BindParams(EmptyMap, function.declaration.params, Top.arguments),
                  enclosing |-> CallEnclosing(function, environment)])
          /\ environment' = Len(envs) + 1
          /\ kont' = <<ExecuteBlockFrame(function.declaration.body),
                       [f |-> "function_call", function |-> function]>> \o Tail(kont)
          /\ last' = [op |-> "call", name |-> function.declaration.name,
                      previous |-> environment]
    /\ ctl' = Ok
    /\ RunEnvs

\* LoxFunction::call, lines 80-94: the match on what execute_block returned.
\* "panic" is the unwrap in get_at(0, "this").
CallResultOfBody(function, es, result) ==
    IF result.m = "err" /\ result.x.k # "Return" THEN result
    ELSE IF result.m = "err" THEN Val(result.x.v)
    ELSE Val(Nil)

CallResult(function, es, result) ==
    IF result.m = "err" /\ result.x.k # "Return" THEN result
    ELSE IF function.is_initializer
         THEN (IF GetAt(es, function.closure, 0, "this").ok
                  THEN Val(GetAt(es, function.closure, 0, "this").v)
                  ELSE [m |-> "panic", x |-> Nil])
    ELSE IF result.m = "err" THEN Val(result.x.v)
    ELSE Val(Nil)

FunctionReturn ==
    /\ pc = "running" /\ kont # <<>> /\ Top.f = "function_call"
    /\ ctl.m \in {"ok", "err"}
    /\ ctl' = CallResult(Top.function, envs, ctl)
    /\ Pop
    /\ last' = [op |-> "call_return", name |-> Top.function.declaration.name,
                by |-> IF ctl.m = "ok" THEN "Ok" ELSE ctl.x.k]
    /\ pc' = IF CallResult(Top.function, envs, ctl).m = "panic" THEN "done" ELSE pc
    /\ UNCHANGED <<envs, environment, output, success, exits, instances, diagnostics>>
    /\ Res

\* Interpreter::visit_this_expr: look_up_variable with the keyword.
VisitThisExpr ==
    /\ Evaluating("This")
    /\ IF ctl.x.id \in DOMAIN locals
          THEN LET r == GetAt(envs, environment, locals[ctl.x.id], "this")
               IN /\ ctl' = IF r.ok THEN Val(r.v) ELSE [m |-> "panic", x |-> Nil]
                  /\ pc' = IF r.ok THEN pc ELSE "done"
                  /\ UNCHANGED diagnostics
          ELSE LET r == EnvGet(envs, GlobalScope(environment), "this")
               IN /\ ctl' = IF r.ok THEN Val(r.v) ELSE Err(RuntimeError("Undefined variable"))
                  /\ diagnostics' = IF r.ok THEN diagnostics
                                    ELSE Append(diagnostics, "Undefined variable")
                  /\ pc' = pc
    /\ last' = [op |-> "look_up_this", id |-> ctl.x.id, resolved |-> ctl.x.id \in DOMAIN locals]
    /\ UNCHANGED <<kont, envs, environment, output, success, exits, instances>>
    /\ Res

\* LoxFunction::bind, lines 59-60: the environment it creates.
BindEnvironment(function, instance) ==
    [values |-> Put(EmptyMap, "this", instance), enclosing |-> function.closure]

\* LoxFunction::bind, line 65: the closure of the function it returns;
\* `created` is the environment of lines 59-60.
BindSharedClosure(function, created) == function.closure

BindClosure(function, created) == created

\* LoxFunction::bind, lines 61-67: the function it returns.
Bind(function, created) ==
    LoxFunction(function.declaration, BindClosure(function, created), function.is_initializer)

\* visit_get_expr, line 175.
VisitGetExpr ==
    /\ Evaluating("Get")
    /\ Push([f |-> "get", name |-> ctl.x.name])
    /\ ctl' = Eval(ctl.x.object)
    /\ last' = [op |-> "visit_get"]
    /\ RunCtl

\* LoxInstance::get, lines 21-31: where the name is found.
MethodsFirst(instance, name) ==
    IF FindMethod(instance.klass, name) # Nil THEN "method"
    ELSE IF name \in DOMAIN instance.fields THEN "field"
    ELSE "none"

PropertySource(instance, name) ==
    IF name \in DOMAIN instance.fields THEN "field"
    ELSE IF FindMethod(instance.klass, name) # Nil THEN "method"
    ELSE "none"

\* visit_get_expr, lines 176-183, with LoxInstance::get.
GetProperty ==
    /\ Returning("val", "get")
    /\ IF ctl.x.k # "Instance"
          THEN /\ ctl' = Err(RuntimeError("Only instances have properties."))
               /\ diagnostics' = Append(diagnostics, "Only instances have properties.")
               /\ last' = [op |-> "get", name |-> Top.name, from |-> "none", object |-> ctl.x]
               /\ UNCHANGED envs
          ELSE LET instance == instances[ctl.x.v]
                   method == FindMethod(instance.klass, Top.name)
                   from == PropertySource(instance, Top.name)
               IN /\ last' = [op |-> "get", name |-> Top.name, from |-> from, object |-> ctl.x]
                  /\ CASE from = "field" ->
                             /\ ctl' = Val(instance.fields[Top.name])
                             /\ UNCHANGED <<envs, diagnostics>>
                       [] from = "method" ->
                             /\ Len(envs) < MaxEnvs
                             /\ envs' = Append(envs, BindEnvironment(method.v, ctl.x))
                             /\ ctl' = Val(Bind(method.v, Len(envs) + 1))
                             /\ UNCHANGED diagnostics
                       [] from = "none" ->
                             /\ ctl' = Err(RuntimeError("Undefined property"))
                             /\ diagnostics' = Append(diagnostics, "Undefined property")
                             /\ UNCHANGED envs
    /\ Pop
    /\ pc' = pc
    /\ UNCHANGED <<environment, output, success, exits, instances>>
    /\ Res

\* visit_set_expr, line 219.
VisitSetExpr ==
    /\ Evaluating("Set")
    /\ Push([f |-> "set_object", name |-> ctl.x.name, value |-> ctl.x.value])
    /\ ctl' = Eval(ctl.x.object)
    /\ last' = [op |-> "visit_set"]
    /\ RunCtl

\* visit_set_expr, lines 221-230: the object has a value.
SetObject ==
    /\ Returning("val", "set_object")
    /\ IF ctl.x.k = "Instance"
          THEN /\ Replace([f |-> "set_value", name |-> Top.name, instance |-> ctl.x.v])
               /\ ctl' = Eval(Top.value)
               /\ UNCHANGED diagnostics
          ELSE /\ Pop
               /\ ctl' = Err(RuntimeError("Only instances have fields."))
               /\ diagnostics' = Append(diagnostics, "Only instances have fields.")
    /\ last' = [op |-> "set_object"]
    /\ pc' = pc
    /\ UNCHANGED <<envs, environment, output, success, exits, instances>>
    /\ Res

\* LoxInstance::set
InstanceSetOfClass(is, i, name, value) ==
    [j \in DOMAIN is |->
        IF is[j].klass = is[i].klass THEN [is[j] EXCEPT !.fields = Put(@, name, value)]
        ELSE is[j]]

InstanceSet(is, i, name, value) == [is EXCEPT ![i].fields = Put(@, name, value)]

\* visit_set_expr, lines 223-224.
SetValue ==
    /\ Returning("val", "set_value")
    /\ instances' = InstanceSet(instances, Top.instance, Top.name, ctl.x)
    /\ Pop
    /\ last' = [op |-> "set", name |-> Top.name, instance |-> Top.instance, value |-> ctl.x]
    /\ pc' = pc
    /\ UNCHANGED <<ctl, envs, environment, output, success, exits, diagnostics>>
    /\ Res

\* LoxClass::call with instantiate, lines 23-26, and LoxFunction::call, lines
\* 74-80, for the bound initializer.
CallClass ==
    /\ Returning("args", "call")
    /\ Top.rest = <<>>
    /\ Top.callee.k = "Class"
    /\ Len(Top.arguments) = Arity(Top.callee)
    /\ LET instance == Instance(Len(instances) + 1)
           initializer == FindMethod(Top.callee.v, "init")
       IN /\ instances' = Append(instances, LoxInstance(Top.callee.v))
          /\ IF initializer = Nil
                THEN /\ ctl' = Val(instance)
                     /\ Pop
                     /\ UNCHANGED <<envs, environment>>
                ELSE LET init == Bind(initializer.v, Len(envs) + 1).v
                     IN /\ Len(envs) + 1 < MaxEnvs
                        /\ envs' = envs \o
                               <<BindEnvironment(initializer.v, instance),
                                 [values |-> BindParams(EmptyMap, init.declaration.params,
                                                        Top.arguments),
                                  enclosing |-> CallEnclosing(init, environment)]>>
                        /\ environment' = Len(envs) + 2
                        /\ kont' = <<ExecuteBlockFrame(init.declaration.body),
                                     [f |-> "function_call", function |-> init],
                                     [f |-> "instantiate", instance |-> instance]>>
                                        \o Tail(kont)
                        /\ ctl' = Ok
          /\ last' = [op |-> "instantiate", class |-> Top.callee.v.name, instance |-> instance,
                      initializer |-> initializer # Nil, previous |-> environment]
    /\ pc' = pc
    /\ UNCHANGED <<output, success, exits, diagnostics>>
    /\ Res

\* LoxClass::instantiate, lines 26-29: the initializer has returned a value.
InstantiateReturn ==
    /\ Returning("val", "instantiate")
    /\ ctl' = Val(Top.instance)
    /\ Pop
    /\ last' = [op |-> "instantiate_return", instance |-> Top.instance, returned |-> ctl.x]
    /\ RunCtl

\* The `?` operator: a frame that does not look at an Err hands it on.
Propagate ==
    /\ pc = "running" /\ ctl.m = "err" /\ kont # <<>>
    /\ \/ Top.f \in {"var", "expression", "print", "if", "return", "assign", "binary_left",
                     "binary_right", "logical", "unary", "call_callee", "call",
                     "while_condition", "class",
                     "get", "set_object", "set_value", "instantiate"}
       \/ Top.f = "while_body" /\ ~EndsLoop(ctl.x)
    /\ Pop
    /\ last' = [op |-> "propagate", from |-> Top.f, signal |-> ctl.x.k]
    /\ UNCHANGED ctl
    /\ RunCtl

InterpreterNext ==
    \/ InterpretNext \/ InterpretErr
    \/ VisitBlockStmt \/ ExecuteBlockNext \/ ExecuteBlockExit
    \/ VisitVarStmt \/ VarDefine \/ VisitExpressionStmt \/ ExpressionDone
    \/ VisitPrintStmt \/ PrintLine \/ VisitIfStmt \/ IfBranch
    \/ VisitWhileStmt \/ WhileCondition \/ WhileBody \/ WhileBreak
    \/ VisitBreakStmt \/ VisitReturnStmt \/ ReturnSignal \/ VisitFunctionStmt
    \/ VisitClassStmt \/ ClassSuperclass
    \/ VisitLiteralExpr \/ VisitVariableExpr \/ VisitAssignExpr \/ AssignValue
    \/ VisitBinaryExpr \/ BinaryLeft \/ BinaryRight
    \/ VisitLogicalExpr \/ LogicalLeft \/ VisitGroupingExpr \/ VisitUnaryExpr \/ UnaryRight
    \/ VisitCallExpr \/ CallCallee \/ CallNextArgument \/ CallArgument
    \/ CallNotCallable \/ CallArityError \/ CallNative \/ CallFunction \/ FunctionReturn
    \/ VisitThisExpr \/ VisitGetExpr \/ GetProperty \/ VisitSetExpr \/ SetObject \/ SetValue
    \/ CallClass \/ InstantiateReturn
    \/ Propagate

\* Environment::new with the native clock (Interpreter::new, lines 291-293).
Globals == [values |-> Put(EmptyMap, "clock", Native("clock")), enclosing |-> 0]

Init ==
    /\ prog \in Programs
    /\ pc = "idle"
    /\ passes = 1
    /\ scopes = <<>>
    /\ current_function = "None"
    /\ in_loop = FALSE
    /\ had_error = FALSE
    /\ rstack = <<>>
    /\ rresult = "none"
    /\ resolved_top = 0
    /\ diagnostics = <<>>
    /\ locals = EmptyMap
    /\ envs = <<Globals>>
    /\ environment = 1
    /\ ctl = [m |-> "idle"]
    /\ kont = <<>>
    /\ output = <<>>
    /\ success = "none"
    /\ instances = <<>>
    /\ exits = {}
    /\ last = [op |-> "new"]

Next == ParseError \/ ResolverNext \/ Run \/ InterpreterNext

Spec == Init /\ [][Next]_vars

\* One Resolver that is handed the statements one list at a time, a single
\* statement each (the lines of a prompt).
InitResolver == Init /\ Len(prog) = 1

NextResolver == ResolverNext \/ ResolveAgain

SpecResolver == InitResolver /\ [][NextResolver]_vars

----------------------------------------------------------------------------
\* The methods of Environment, each called once on a scope of a chain of
\* environments that blocks and calls have built: globals first, every other
\* environment enclosed by the one before it.

\* The names and values the environments hold, and the value a call writes.
EnvNames == {"a", "b"}

EnvValues == {Num(1), Num(2)}

Written == Num(3)

Bindings == UNION {[names -> EnvValues] : names \in SUBSET EnvNames}

Chains ==
    UNION {{es \in [1..n -> [values : Bindings, enclosing : 0..(n - 1)]] :
               \A i \in 1..n : es[i].enclosing = i - 1} : n \in 1..MaxDepth}

InitEnvironment ==
    /\ prog = <<>>
    /\ pc = "environment"
    /\ passes = 1
    /\ scopes = <<>>
    /\ current_function = "None"
    /\ in_loop = FALSE
    /\ had_error = FALSE
    /\ rstack = <<>>
    /\ rresult = "none"
    /\ resolved_top = 0
    /\ diagnostics = <<>>
    /\ locals = EmptyMap
    /\ \E es \in Chains :
          envs = [es EXCEPT ![1].values = Put(@, "clock", Native("clock"))]
    /\ environment \in DOMAIN envs
    /\ ctl = [m |-> "idle"]
    /\ kont = <<>>
    /\ output = <<>>
    /\ success = "none"
    /\ instances = <<>>
    /\ exits = {}
    /\ last = [op |-> "new"]

\* What a call of a method of Environment leaves alone.
Called ==
    /\ pc' = "called"
    /\ UNCHANGED <<prog, passes, environment, ctl, kont, output, success, instances, exits,
                   resolverVars>>

\* Environment::define on the scope `environment`.
CallDefine ==
    /\ pc = "environment"
    /\ \E name \in EnvNames :
          /\ envs' = EnvDefine(envs, environment, name, Written)
          /\ last' = [op |-> "define", name |-> name]
    /\ Called

\* Environment::assign on the scope `environment`.
CallAssign ==
    /\ pc = "environment"
    /\ \E name \in EnvNames :
          LET r == EnvAssign(envs, environment, name, Written)
          IN /\ envs' = r.envs
             /\ last' = [op |-> "assign", name |-> name, ok |-> r.ok]
    /\ Called

\* Environment::get_at on the scope `environment`; ok = FALSE is a panic.
CallGetAt ==
    /\ pc = "environment"
    /\ \E name \in EnvNames, distance \in 0..MaxDepth :
          LET r == GetAt(envs, environment, distance, name)
          IN last' = [op |-> "get_at", name |-> name, distance |-> distance,
                      ok |-> r.ok, v |-> r.v]
    /\ UNCHANGED envs
    /\ Called

\* Environment::assign_at on the scope `environment`; ok = FALSE is a panic.
CallAssignAt ==
    /\ pc = "environment"
    /\ \E name \in EnvNames, distance \in 0..MaxDepth :
          LET r == AssignAt(envs, environment, distance, name, Written)
          IN /\ envs' = r.envs
             /\ last' = [op |-> "assign_at", name |-> name, distance |-> distance,
                         ok |-> r.ok]
    /\ Called

NextEnvironment == CallDefine \/ CallAssign \/ CallGetAt \/ CallAssignAt

SpecEnvironment == InitEnvironment /\ [][NextEnvironment]_vars

----------------------------------------------------------------------------
\* Properties.

\* The execute_block calls that have not returned yet.
OpenBlocks == {i \in DOMAIN kont : kont[i].f = "execute_block"}

\* C1: execute_block puts back the environment that was current before the
\* call on every way out of the call: the statement list completing, a Break,
\* a Return, a runtime error.  The frame of a call holds the environment that
\* was current when it was entered, the environment is that one again when
\* the call has returned, and with no call open it is the global environment.
C1_ExecuteBlockRestores ==
    /\ last.op \in {"execute_block", "call"} =>
           Top.f = "execute_block" /\ Top.previous = last.previous
    /\ last.op = "execute_block_exit" => environment = last.previous
    /\ (pc \in {"running", "done"} /\ OpenBlocks = {}) => environment = 1

\* An inner block has just been left by a runtime error, the environment of the
\* block around it is current again, and calls have also returned by
\* completing, by a Break and by a Return earlier in the run.
C1_Witness ==
    /\ last.op = "execute_block_exit"
    /\ last.by = "LoxRuntimeError"
    /\ environment = last.previous
    /\ environment # 1
    /\ exits = {"Ok", "Break", "Return", "LoxRuntimeError"}

\* C2: in a program the resolver accepts, a Break raised in a function body
\* does not leave LoxFunction::call, a Return travels only while a function
\* call is open to consume it, and neither signal arrives at the statement
\* loop of interpret().
C2_SignalsStayInside ==
    /\ last.op = "call_return" => last.by # "Break"
    /\ (pc = "running" /\ ctl.m = "err" /\ ctl.x.k = "Return") =>
           \E i \in DOMAIN kont : kont[i].f = "function_call"
    /\ last.op = "interpret_err" => last.signal \notin {"Break", "Return"}

\* The while statement that lexically encloses the break statement `id` most
\* closely, searching `stmt` which itself lies in `loop` (0: in no loop);
\* -1 when `id` is not in `stmt`.
RECURSIVE LoopAround(_, _, _)
RECURSIVE LoopAroundIn(_, _, _)
LoopAround(stmt, id, loop) ==
    CASE stmt.t = "Break" -> IF stmt.id = id THEN loop ELSE -1
      [] stmt.t = "Block" -> LoopAroundIn(stmt.statements, id, loop)
      [] stmt.t = "While" -> LoopAround(stmt.body, id, stmt.id)
      [] stmt.t = "Function" -> LoopAroundIn(stmt.body, id, loop)
      [] stmt.t = "Class" -> LoopAroundIn(stmt.methods, id, loop)
      [] stmt.t = "If" ->
             IF LoopAround(stmt.then_branch, id, loop) # -1
                THEN LoopAround(stmt.then_branch, id, loop)
                ELSE LoopAround(stmt.else_branch, id, loop)
      [] OTHER -> -1

LoopAroundIn(statements, id, loop) ==
    IF statements = <<>> THEN -1
    ELSE IF LoopAround(Head(statements), id, loop) # -1
         THEN LoopAround(Head(statements), id, loop)
    ELSE LoopAroundIn(Tail(statements), id, loop)

\* C3: the while loop a break ends is the innermost one that lexically
\* encloses the break statement, and execution then goes on normally after
\* that loop, inside whatever loops are around it.
C3_BreakEndsInnermostLoop ==
    last.op = "while_break" =>
        /\ last.loop = LoopAroundIn(Statements(prog), last.by, 0)
        /\ ctl = Ok

\* C4: after a pass, success() is false exactly when the pass detected a
\* static error: true when nothing was reported and resolve() returned Ok,
\* false otherwise.
C4_SuccessIffNoStaticError ==
    pc = "resolved" => (Success <=> (diagnostics = <<>> /\ rresult = "Ok"))

\* C5: a static error does not end the pass: when resolve() has returned,
\* every top-level statement of the program has been resolved.
C5_PassVisitsEveryStatement ==
    pc = "resolved" => resolved_top = Len(prog)

\* `name` is declared and not yet defined in the innermost scope of `sc`.
UnreadyInnermost(sc, name) ==
    sc # <<>> /\ name \in DOMAIN sc[Len(sc)] /\ sc[Len(sc)][name] = FALSE

\* C6: a variable reference is rejected exactly when its name is declared but
\* not yet defined in the innermost scope; a name that is not-ready only in an
\* outer scope is resolved like any other.  In particular the pass over
\* { var a = a; } ends with the error.
C6_OwnInitializerRejected ==
    /\ last.op = "reject" => UnreadyInnermost(scopes, last.name) /\ rresult = "Err"
    /\ (last.op = "resolve_local" /\ last.node = "Variable") =>
           ~UnreadyInnermost(scopes, last.name)
    /\ (pc = "resolved" /\ Statements(prog) = <<SelfInit>>) => rresult = "Err"

\* A reference has just been resolved, not rejected, although its name is
\* declared and not ready in a scope further out (left there by a rejected
\* initializer) and absent from the innermost scope.
C6_Witness ==
    /\ last.op = "resolve_local" /\ last.node = "Variable"
    /\ last.id \in DOMAIN locals
    /\ last.name \notin DOMAIN scopes[Len(scopes)]
    /\ \E i \in DOMAIN scopes : last.name \in DOMAIN scopes[i] /\ scopes[i][last.name] = FALSE

\* C7: a declaration (var, fun, class, parameter) reports a static error and
\* sets had_error exactly when the innermost scope already holds the name; a
\* name held only by scopes further out is declared without an error.
C7_DuplicateDeclaration ==
    [][last'.op = "declare" =>
          IF scopes # <<>> /\ last'.name \in DOMAIN scopes[Len(scopes)]
             THEN had_error' /\ Len(diagnostics') = Len(diagnostics) + 1
             ELSE had_error' = had_error /\ diagnostics' = diagnostics]_vars

\* The class of { var a = 1; var a = 2; fun a(p, p) { } class a { } } has just
\* been declared: each of the four repeated declarations has reported once,
\* and the shadowing declaration of the statement resolved before it
\* ({ var a = 2; { var a = 3; print a; } ... }) has reported nothing.
C7_Witness ==
    /\ last.op = "declare" /\ last.by = "class"
    /\ had_error
    /\ Len(diagnostics) = 4
    /\ 1 \in DOMAIN locals /\ locals[1] = 0

\* C8: resolve_local records for the node the number of scopes between the
\* innermost scope and the nearest scope that declares the name (0 for the
\* innermost scope itself) and changes the record of no other node; when no
\* scope declares the name it records nothing.
C8_ResolveLocalDistance ==
    [][last'.op = "resolve_local" =>
          LET holders == {i \in DOMAIN scopes : last'.name \in DOMAIN scopes[i]}
              nearest == CHOOSE i \in holders : \A j \in holders : j <= i
          IN IF holders = {}
                THEN locals' = locals /\ last'.id \notin DOMAIN locals'
                ELSE /\ DOMAIN locals' = DOMAIN locals \cup {last'.id}
                     /\ locals'[last'.id] = Len(scopes) - nearest
                     /\ \A n \in DOMAIN locals \ {last'.id} : locals'[n] = locals[n]]_vars

\* In { var a = 2; { var a = 3; print a; } { print a; } } the reference in the
\* shadowing block has distance 0 and the reference in the other block, just
\* resolved, has distance 1.
C8_Witness ==
    /\ last.op = "resolve_local" /\ last.id = 42
    /\ 42 \in DOMAIN locals /\ locals[42] = 1
    /\ 1 \in DOMAIN locals /\ locals[1] = 0

\* The environment `distance` enclosing-links above `e` exists and binds `name`.
BoundAt(es, e, distance, name) ==
    /\ Ancestor(es, e, distance) # 0
    /\ name \in DOMAIN es[Ancestor(es, e, distance)].values

\* C9: in a run of an accepted program, whenever a node with a recorded
\* distance d is about to be read or assigned, the environment d links above
\* the current one exists and binds the name; get_at and assign_at never
\* panic and a resolved node never yields an undefined-variable error.
C9_ResolvedReferenceIsBound ==
    /\ ctl.m # "panic"
    /\ (pc = "running" /\ ctl.m = "eval" /\ ctl.x.t = "Variable" /\ ctl.x.id \in DOMAIN locals) =>
           BoundAt(envs, environment, locals[ctl.x.id], ctl.x.name)
    /\ (pc = "running" /\ ctl.m = "val" /\ kont # <<>> /\ Top.f = "assign"
            /\ Top.id \in DOMAIN locals) =>
           BoundAt(envs, environment, locals[Top.id], Top.name)
    /\ (last.op \in {"look_up_variable", "assign"} /\ last.resolved) => ctl.m = "val"

\* A reference with a recorded distance of at least 1 has just been read
\* inside a function that was called from a block nested more deeply than
\* the function's declaration.
C9_Witness ==
    /\ last.op = "look_up_variable" /\ last.resolved
    /\ locals[last.id] >= 1
    /\ ctl.m = "val"
    /\ \E i \in DOMAIN kont :
          /\ kont[i].f = "execute_block"
          /\ i + 1 \in DOMAIN kont
          /\ kont[i + 1].f = "function_call"
          /\ kont[i].previous # kont[i + 1].function.closure

\* C10: a node without a recorded distance is read and assigned in the global
\* environment only.  A read changes nothing and yields the global's value,
\* or the undefined-variable error when no global of the name exists; an
\* assignment changes the global binding and no other, or fails.
C10_UnresolvedIsGlobal ==
    [][/\ (last'.op = "look_up_variable" /\ ~last'.resolved) =>
             /\ envs' = envs
             /\ ctl' = IF last'.name \in DOMAIN envs[1].values
                          THEN Val(envs[1].values[last'.name])
                          ELSE Err(RuntimeError("Undefined variable"))
       /\ (last'.op = "assign" /\ ~last'.resolved) =>
             IF last'.name \in DOMAIN envs[1].values
                THEN /\ envs' = [envs EXCEPT ![1].values[last'.name] = last'.value]
                     /\ ctl' = Val(last'.value)
                ELSE /\ envs' = envs
                     /\ ctl' = Err(RuntimeError("Underfined variable"))]_vars

\* A node without a record has just been read while a local binding of its
\* name with another value is visible from the current environment: the read
\* gave the global's value.
C10_Witness ==
    /\ last.op = "look_up_variable" /\ ~last.resolved
    /\ environment # 1
    /\ last.name \in DOMAIN envs[1].values
    /\ ctl = Val(envs[1].values[last.name])
    /\ EnvGet(envs, environment, last.name).v # ctl.x

\* C11: a function value closes over the environment that is current at its
\* declaration, and a call of it runs the body in a fresh environment whose
\* parent is that closure, whatever environment the caller is in; the call
\* changes no existing environment.  So a free variable of the body denotes
\* the same binding on every call: in the scope script showA reads the global
\* a each time although the block declares its own a afterwards, and k
\* increments the c of its block of declaration although the caller has a c.
C11_CallRunsInClosure ==
    [][/\ last'.op = "visit_function" =>
             envs'[environment].values[last'.name].v.closure = environment
       /\ last'.op = "call" =>
             /\ Len(envs') = Len(envs) + 1
             /\ environment' = Len(envs')
             /\ envs'[environment'].enclosing = Top.callee.v.closure
             /\ \A e \in DOMAIN envs : envs'[e] = envs[e]
       /\ (pc' = "done" /\ Statements(prog) = ScopeScript) =>
             output' = <<"1", "1", "1", "2", "3", "10", "3">>]_vars

\* k has just been called for the second time, from a block that holds its
\* own c: the environment of the call hangs below the block of declaration,
\* not below the caller's, and the calls before it gave 1, 1, 1 and 2.
C11_Witness ==
    /\ last.op = "call" /\ last.name = "k"
    /\ envs[environment].enclosing # last.previous
    /\ "c" \in DOMAIN envs[last.previous].values
    /\ "c" \in DOMAIN envs[envs[environment].enclosing].values
    /\ output = <<"1", "1", "1", "2">>

\* The function_call frames: the calls of user functions that have not
\* returned yet.
OpenCalls == {i \in DOMAIN kont : kont[i].f = "function_call"}

\* C12: a function returned from another function reads and writes the
\* locals of the outer call after that call has returned.  An assignment
\* to a resolved variable writes the one environment the recorded distance
\* names and leaves every other environment as it was, so the value is there
\* at the next invocation and closures from two outer calls, which hold two
\* environments, share nothing: with p = make() and q = make(), p() gives 1,
\* p() gives 2 and q() gives 1.
C12_ClosureKeepsLocals ==
    [][/\ (last'.op = "assign" /\ last'.resolved) =>
             LET a == Ancestor(envs, environment, locals[last'.id])
             IN /\ a # 0
                /\ envs'[a].values[last'.name] = last'.value
                /\ \A e \in DOMAIN envs : e # a => envs'[e] = envs[e]
       /\ (pc' = "done" /\ Statements(prog) = CounterScript) =>
             /\ output' = <<"1", "2", "1">>
             /\ envs'[1].values["p"].v.closure # envs'[1].values["q"].v.closure
             /\ envs'[envs'[1].values["p"].v.closure].values["n"] = Num(2)
             /\ envs'[envs'[1].values["q"].v.closure].values["n"] = Num(1)]_vars

\* The closure p is running for the second time and has just written 2 to
\* the n of the first call of make, which returned long ago (the only call
\* open is the one of inc), while the n of the second call of make is still 0.
C12_Witness ==
    /\ Statements(prog) = CounterScript
    /\ last.op = "assign" /\ last.name = "n" /\ last.value = Num(2)
    /\ Cardinality(OpenCalls) = 1
    /\ \A i \in OpenCalls : kont[i].function.declaration.name = "inc"
    /\ output = <<"1">>
    /\ envs[envs[1].values["q"].v.closure].values["n"] = Num(0)

\* C13: a function can call itself by name.  The resolver has declared and
\* defined the name in the scope around the function when it starts on the
\* body, the interpreter binds the name in the declaring environment when
\* it executes the declaration, and every call binds the parameters in an
\* environment of its own.  The factorial of 5 declared at top level is 120
\* and the factorial of 3 declared in a block is 6.
C13_Recursion ==
    [][/\ (last'.op = "declare" /\ last'.by = "fun" /\ scopes # <<>>) =>
             /\ Len(scopes') = Len(scopes) + 1
             /\ last'.name \in DOMAIN scopes'[Len(scopes)]
             /\ scopes'[Len(scopes)][last'.name] = TRUE
       /\ last'.op = "visit_function" =>
             /\ last'.name \in DOMAIN envs'[environment].values
             /\ envs'[environment].values[last'.name].k = "Function"
       /\ last'.op = "call" =>
             /\ environment' \notin DOMAIN envs
             /\ DOMAIN envs'[environment'].values =
                    {Top.callee.v.declaration.params[i] :
                         i \in DOMAIN Top.callee.v.declaration.params}
             /\ \A i \in DOMAIN Top.arguments :
                    envs'[environment'].values[Top.callee.v.declaration.params[i]]
                        = Top.arguments[i]
       /\ (pc' = "done" /\ Statements(prog) = FactorialScript) => output' = <<"120", "6">>]_vars

\* The fifth call of f inside f(5) has just been made: five calls are open
\* and their five environments hold the five values of n, the newest one 1.
C13_Witness ==
    /\ Statements(prog) = FactorialScript
    /\ last.op = "call" /\ last.name = "f"
    /\ Cardinality(OpenCalls) = 5
    /\ envs[environment].values["n"] = Num(1)
    /\ {envs[e].values["n"] : e \in 2..Len(envs)} = {Num(i) : i \in 1..5}

\* C15: the call of a class creates an instance without fields and yields
\* it.  When the class or a superclass has `init`, the method is bound to
\* the new instance and called with the arguments of the call, and what it
\* returns is dropped.  A function whose is_initializer is set returns the
\* `this` of its closure when the body executed `return` and when the body
\* ran to its end.
C15_ClassCallYieldsInstance ==
    [][/\ last'.op = "instantiate" =>
             /\ instances' = Append(instances, LoxInstance(Top.callee.v))
             /\ last'.instance = Instance(Len(instances'))
             /\ IF FindMethod(Top.callee.v, "init") = Nil
                   THEN ctl' = Val(last'.instance)
                   ELSE LET init == kont'[2].function
                            params == FindMethod(Top.callee.v, "init").v.declaration.params
                        IN /\ kont'[2].f = "function_call" /\ kont'[3].f = "instantiate"
                           /\ init.declaration = FindMethod(Top.callee.v, "init").v.declaration
                           /\ init.is_initializer
                           /\ envs'[init.closure].values["this"] = last'.instance
                           /\ \A i \in DOMAIN params :
                                  envs'[environment'].values[params[i]] = Top.arguments[i]
       /\ last'.op = "instantiate_return" => ctl' = Val(last'.instance)
       /\ (last'.op = "call_return" /\ Top.function.is_initializer
              /\ last'.by \in {"Ok", "Return"}) =>
             ctl' = Val(envs[Top.function.closure].values["this"])
       /\ (pc' = "done" /\ Statements(prog) = InitScript) =>
             /\ envs'[1].values["o"] = Instance(1)
             /\ envs'[1].values["r"] = Instance(2)
             /\ envs'[1].values["s"] = Instance(3)
             /\ envs'[1].values["again"] = Instance(1)
             /\ envs'[1].values["anew"] = Instance(2)]_vars

\* Q(7) has just yielded the new instance: Q has no init of its own, the init
\* of its superclass P ran with x = 7 and executed `return 2`, and the 2 was
\* dropped.
C15_Witness ==
    /\ Statements(prog) = InitScript
    /\ last.op = "instantiate_return"
    /\ last.returned = Instance(1)
    /\ ctl = Val(Instance(1))
    /\ instances[1].klass.name = "Q"
    /\ \E e \in DOMAIN envs : "x" \in DOMAIN envs[e].values /\ envs[e].values["x"] = Num(7)

\* C16: in a method invoked through an instance `this` evaluates to the
\* instance and a parameter evaluates to the argument passed for it: every
\* evaluation of `this` yields an instance, after
\* class T { init(x) { this.f = x; } } var t = T(3); print t.f; the output is
\* 3, and class U { echo(x) { return x; } } print U().echo(4); prints 4.
C16_ThisAndParametersInMethods ==
    /\ last.op = "look_up_this" => (ctl.m = "val" /\ ctl.x.k = "Instance")
    /\ (pc = "done" /\ Statements(prog) = ThisScript) => output = <<"3">>
    /\ (pc = "done" /\ Statements(prog) = EchoScript) => output = <<"4">>

\* C17: a property read on an instance yields the field of that name when
\* the instance has one; otherwise the method of that name found in its class
\* or a superclass, bound to the instance; otherwise it is a runtime error.
\* A property write puts the value in the field table of that instance and
\* changes no other instance, no class and no environment.  With o and o2
\* instances of Q < P and hello a method of P: o.hello() is 1, after
\* o.hello = 5 o.hello is 5, o2.hello() is still 1, and o.nothing fails.
C17_FieldsBeforeMethods ==
    [][/\ (last'.op = "get" /\ ctl.x.k = "Instance") =>
             LET instance == instances[ctl.x.v]
                 method == FindMethod(instance.klass, last'.name)
             IN IF last'.name \in DOMAIN instance.fields
                   THEN ctl' = Val(instance.fields[last'.name]) /\ envs' = envs
                ELSE IF method # Nil
                   THEN /\ ctl'.m = "val" /\ ctl'.x.k = "Function"
                        /\ ctl'.x.v.declaration = method.v.declaration
                        /\ envs'[ctl'.x.v.closure].values["this"] = ctl.x
                ELSE ctl'.m = "err" /\ ctl'.x.k = "LoxRuntimeError"
       /\ last'.op = "set" =>
             /\ DOMAIN instances' = DOMAIN instances
             /\ \A i \in DOMAIN instances :
                    /\ instances'[i].klass = instances[i].klass
                    /\ i # last'.instance => instances'[i] = instances[i]
             /\ DOMAIN instances'[last'.instance].fields =
                    DOMAIN instances[last'.instance].fields \cup {last'.name}
             /\ \A n \in DOMAIN instances'[last'.instance].fields :
                    instances'[last'.instance].fields[n] =
                        IF n = last'.name THEN last'.value
                        ELSE instances[last'.instance].fields[n]
             /\ envs' = envs
             /\ ctl' = Val(last'.value)
       /\ (pc' = "done" /\ Statements(prog) = PropertyScript) =>
             /\ output' = <<"1", "5", "1">>
             /\ success' = FALSE
             /\ diagnostics' = <<"Undefined property">>]_vars

\* o2.hello has just yielded the method of P bound to o2, while o, an
\* instance of the same class, holds the field hello = 5 that hides it.
C17_Witness ==
    /\ Statements(prog) = PropertyScript
    /\ last.op = "get" /\ last.name = "hello" /\ last.from = "method"
    /\ last.object = Instance(2)
    /\ instances[1].klass = instances[2].klass
    /\ instances[1].fields = Put(EmptyMap, "hello", Num(5))
    /\ output = <<"1", "5">>

\* C18: bind(instance) returns a function with the declaration (name,
\* parameters, body) and the is_initializer flag of the original, whose
\* closure is a new environment that has the original closure as parent and
\* holds `this` = instance and nothing else.  No environment that existed,
\* the original closure among them, and no instance changes, and the method
\* found in the class is the same afterwards.  This holds where a method is
\* read through an instance and where a class call binds the initializer.
C18_BindFrame ==
    [][/\ (last'.op = "get" /\ last'.from = "method") =>
             LET method == FindMethod(instances[ctl.x.v].klass, last'.name).v
                 bound == ctl'.x.v
             IN /\ ctl'.m = "val" /\ ctl'.x.k = "Function"
                /\ bound.declaration = method.declaration
                /\ bound.is_initializer = method.is_initializer
                /\ bound.closure \notin DOMAIN envs
                /\ DOMAIN envs' = DOMAIN envs \cup {bound.closure}
                /\ envs'[bound.closure].enclosing = method.closure
                /\ DOMAIN envs'[bound.closure].values = {"this"}
                /\ envs'[bound.closure].values["this"] = ctl.x
                /\ \A e \in DOMAIN envs : envs'[e] = envs[e]
                /\ instances' = instances
                /\ FindMethod(instances'[ctl.x.v].klass, last'.name).v = method
       /\ (last'.op = "instantiate" /\ last'.initializer) =>
             LET method == FindMethod(Top.callee.v, "init").v
                 bound == kont'[2].function
             IN /\ bound.declaration = method.declaration
                /\ bound.is_initializer = method.is_initializer
                /\ bound.closure \notin DOMAIN envs
                /\ envs'[bound.closure].enclosing = method.closure
                /\ DOMAIN envs'[bound.closure].values = {"this"}
                /\ envs'[bound.closure].values["this"] = last'.instance
                /\ \A e \in DOMAIN envs : envs'[e] = envs[e]]_vars

\* The method hello has been bound to o earlier (the global h holds the
\* result) and has just been bound to o2: two functions with the same
\* declaration and two closures, both children of the closure of the method,
\* one holding this = o and the other this = o2.
C18_Witness ==
    /\ last.op = "get" /\ last.from = "method" /\ last.object = Instance(2)
    /\ ctl.m = "val" /\ ctl.x.k = "Function"
    /\ "h" \in DOMAIN envs[1].values
    /\ LET first == envs[1].values["h"].v
           second == ctl.x.v
       IN /\ first.declaration = second.declaration
          /\ first.closure # second.closure
          /\ envs[first.closure].enclosing = envs[second.closure].enclosing
          /\ envs[first.closure].values["this"] = Instance(1)
          /\ envs[second.closure].values["this"] = Instance(2)

\* C19: == and != never fail.  Operands of different kinds are unequal, nil
\* equals nil only, and operands of one kind are equal when they are the same
\* value (the same number, string or boolean, the same callable or instance):
\* == yields that answer and != its negation.
C19_EqualityNeverFails ==
    (last.op = "binary" /\ last.operator \in {"EqualEqual", "BangEqual"}) =>
        LET equal == last.left.k = last.right.k /\ last.left = last.right
        IN ctl = Val(Bool(IF last.operator = "EqualEqual" THEN equal ELSE ~equal))

\* C20: + adds two numbers; when at least one operand is a string it yields
\* the display form of the left operand followed by the display form of
\* the right one, whatever the other operand is; in every other case it is
\* a runtime error.
C20_PlusConcatenatesWithAnyKind ==
    (last.op = "binary" /\ last.operator = "Plus") =>
        IF last.left.k = "Num" /\ last.right.k = "Num"
           THEN ctl = Val(Num(last.left.v + last.right.v))
        ELSE IF last.left.k = "Str" \/ last.right.k = "Str"
           THEN ctl = Val(Str(Display(last.left) \o Display(last.right)))
        ELSE ctl.m = "err" /\ ctl.x.k = "LoxRuntimeError"

\* C14: super.method() in a method of a subclass calls the method of the
\* superclass with the current `this`: for class A { greet() { return "A"; } }
\* and class B < A { greet() { return super.greet() + "B"; } } the program
\* print B().greet(); prints AB.
C14_SuperCallsSuperclassMethod ==
    (pc = "done" /\ Statements(prog) = SuperScript) => output = <<"AB">>


----------------------------------------------------------------------------
\* C21: the operators -, *, /, >, >=, <, <= give a runtime error whenever an
\* operand is not a number, and the number or boolean when both are numbers
\* (a zero divisor apart).
NumericOperators == {"Minus", "Star", "Slash", "Greater", "GreaterEqual", "Less", "LessEqual"}

C21_NumericOperatorsRequireNumbers ==
    [][(last'.op = "binary" /\ last'.operator \in NumericOperators) =>
          IF last'.left.k = "Num" /\ last'.right.k = "Num"
             THEN (last'.operator = "Slash" /\ last'.right.v = 0)
                  \/ (ctl'.m = "val" /\ ctl'.x.k \in {"Num", "Bool"})
             ELSE ctl'.m = "err" /\ ctl'.x.k = "LoxRuntimeError"]_vars

\* C22: a division of numbers by zero is a runtime error, whatever the dividend.
C22_DivisionByZero ==
    [][(last'.op = "binary" /\ last'.operator = "Slash"
        /\ last'.left.k = "Num" /\ last'.right = Num(0)) =>
          /\ ctl'.m = "err" /\ ctl'.x = RuntimeError("Cannot divide by zero.")
          /\ output' = output]_vars

C22_Witness ==
    /\ last.op = "binary" /\ last.operator = "Slash"
    /\ last.left = Num(0) /\ last.right = Num(0)
    /\ ctl.m = "err"
    /\ output = <<"2">>

\* C23: `or` with a truthy left operand and `and` with a falsy one return the
\* left value and leave the right operand alone; otherwise the right operand is
\* evaluated once, in place of the whole expression, and its value is the result.
C23_ShortCircuit ==
    [][/\ last'.op = "logical" =>
             LET falsy == last'.left \in {Nil, Bool(FALSE)}
                 short == IF last'.operator = "Or" THEN ~falsy ELSE falsy
             IN /\ kont' = Tail(kont)
                /\ envs' = envs
                /\ ctl' = IF short THEN Val(last'.left) ELSE Eval(last'.right)
       /\ (pc' = "done" /\ Statements(prog) = LogicalScript) =>
             output' = <<"x", "0", "1", "nil", "1", "2", "2", "false">>]_vars

C23_Witness ==
    /\ pc = "done"
    /\ Statements(prog) = LogicalScript
    /\ output = <<"x", "0", "1", "nil", "1", "2", "2", "false">>
    /\ success

\* C24: nil and false are falsy and every other value is truthy, in `if`,
\* `while`, `and`/`or` and `!`; `!` gives the boolean opposite of the truthiness
\* of its operand, unary `-` the negated number or a runtime error.
Falsy == {Nil, Bool(FALSE)}

C24_Truthiness ==
    [][/\ last'.op = "if_branch" =>
             ctl' = IF ctl.x \notin Falsy THEN Exec(Head(kont).then_branch)
                    ELSE IF Head(kont).else_branch # None THEN Exec(Head(kont).else_branch)
                    ELSE Ok
       /\ last'.op = "while_condition" =>
             ctl' = IF ctl.x \notin Falsy THEN Exec(Head(kont).stmt.body) ELSE Ok
       /\ last'.op = "logical" =>
             (ctl' = Val(last'.left)) =
                 (IF last'.operator = "Or" THEN last'.left \notin Falsy
                  ELSE last'.left \in Falsy)
       /\ (last'.op = "unary" /\ last'.operator = "Bang") =>
             ctl' = Val(Bool(last'.right \in Falsy))
       /\ (last'.op = "unary" /\ last'.operator = "Minus") =>
             IF last'.right.k = "Num" THEN ctl' = Val(Num(0 - last'.right.v))
             ELSE ctl'.m = "err" /\ ctl'.x.k = "LoxRuntimeError"
       /\ (pc' = "done" /\ Statements(prog) = TruthScript) =>
             output' = <<"zero", "empty", "native", "nil", "false", "loop",
                         "false", "false", "true", "true", "-3", "0", "1">>]_vars

C24_Witness ==
    /\ pc = "done"
    /\ Statements(prog) = TruthScript
    /\ output = <<"zero", "empty", "native", "nil", "false", "loop",
                  "false", "false", "true", "true", "-3", "0", "1">>
    /\ diagnostics = <<"Operand must be number.">>
    /\ ~success

\* C25: a call evaluates its callee, then its arguments from left to right.
\* Once they are evaluated, a callee that is no function, native function or
\* class is a runtime error; a number of arguments other than the arity (the
\* parameters of a function, those of the `init` found along the superclass
\* chain or 0 for a class) is a runtime error that runs no statement of the body
\* and creates no instance; any other call goes ahead.
Expected(callee) ==
    CASE callee.k = "Function" -> Len(callee.v.declaration.params)
      [] callee.k = "Native" -> 0
      [] callee.k = "Class" ->
             IF FindMethod(callee.v, "init") = Nil THEN 0
             ELSE Len(FindMethod(callee.v, "init").v.declaration.params)

C25_CallChecks ==
    [][/\ (pc = "running" /\ ctl.m = "args" /\ Head(kont).f = "call"
           /\ Head(kont).rest = <<>>) =>
             LET callee == Head(kont).callee
                 fails == \/ callee.k \notin {"Function", "Native", "Class"}
                          \/ Len(Head(kont).arguments) # Expected(callee)
             IN IF fails
                   THEN /\ ctl'.m = "err" /\ ctl'.x.k = "LoxRuntimeError"
                        /\ kont' = Tail(kont)
                        /\ instances' = instances /\ envs' = envs /\ output' = output
                   ELSE ctl'.m \in {"ok", "val"}
       /\ last'.op = "callee" => Head(kont').arguments = <<>>
       /\ last'.op = "argument" =>
             /\ Head(kont').arguments = Append(Head(kont).arguments, ctl.x)
             /\ Head(kont').rest = Head(kont).rest
       /\ last'.op = "next_argument" =>
             /\ ctl' = Eval(Head(Head(kont).rest))
             /\ Head(kont').rest = Tail(Head(kont).rest)
       /\ (pc' = "done" /\ Statements(prog) = CallOrderScript) =>
             /\ output' = <<"callee", "2", "20", "true">>
             /\ diagnostics' = <<"Expected arguments">>
       /\ (pc' = "done" /\ Statements(prog) \in
              {ArityInheritedScript, ArityNoInitScript, ArityNativeScript}) =>
             /\ output' = <<>> /\ instances' = <<>>
             /\ diagnostics' = <<"Expected arguments">>
       /\ (pc' = "done" /\ Statements(prog) = CallInstanceScript) =>
             /\ Len(instances') = 1
             /\ diagnostics' = <<"Can only call functions and classes.">>]_vars

C25_Witness ==
    /\ pc = "done"
    /\ Statements(prog) = ArityInheritedScript
    /\ last.op = "interpret_err"
    /\ instances = <<>>
    /\ output = <<>>
    /\ diagnostics = <<"Expected arguments">>

\* C26: interpret runs the top-level statements in order; the first one that
\* returns an error ends the run with false, no later statement is executed and
\* what was printed, defined, assigned and written before the error stays; true
\* is returned only after the last statement has completed.
C26_FailFast ==
    [][/\ pc # "done"
       /\ (pc = "running" /\ Len(kont) = 1 /\ ctl.m = "err") =>
             /\ pc' = "done" /\ success' = FALSE
             /\ output' = output /\ envs' = envs /\ instances' = instances
       /\ (pc = "running" /\ Len(kont) = 1 /\ ctl.m = "ok" /\ Head(kont).rest # <<>>) =>
             /\ ctl' = Exec(Head(Head(kont).rest))
             /\ Head(kont').rest = Tail(Head(kont).rest)
       /\ (pc' = "done" /\ last'.op \in {"interpret_next", "interpret_err"}) =>
             (success' <=> (Len(kont) = 1 /\ ctl.m = "ok" /\ Head(kont).rest = <<>>))
       /\ last'.op \notin {"interpret_next", "interpret_err"} => success' = success
       /\ (pc' = "done" /\ Statements(prog) = FailFastScript) =>
             /\ success' = FALSE
             /\ output' = <<"before", "in">>
             /\ envs'[1].values["a"] = Num(2)
             /\ instances'[1].fields = Put(EmptyMap, "f", Num(7))
             /\ diagnostics' = <<"Operands must be numbers.">>]_vars

C26_Witness ==
    /\ pc = "done"
    /\ Statements(prog) = FailFastScript
    /\ success = FALSE
    /\ output = <<"before", "in">>
    /\ envs[1].values["a"] = Num(2)
    /\ instances[1].fields = Put(EmptyMap, "f", Num(7))

\* The environments from `e` outwards, `e` first.
RECURSIVE ChainOf(_, _)
ChainOf(es, e) == IF e = 0 THEN <<>> ELSE <<e>> \o ChainOf(es, es[e].enclosing)

\* `after` is `before` with `name` bound to `value` in scope `e`, and nothing
\* else changed.
OnlyWrites(before, after, e, name, value) ==
    /\ DOMAIN after = DOMAIN before
    /\ \A i \in DOMAIN before : i # e => after[i] = before[i]
    /\ after[e].enclosing = before[e].enclosing
    /\ DOMAIN after[e].values = DOMAIN before[e].values \cup {name}
    /\ after[e].values[name] = value
    /\ \A n \in DOMAIN before[e].values : n # name => after[e].values[n] = before[e].values[n]

\* C27: define writes the scope it is called on and no other; assign overwrites
\* the binding of the nearest scope of the chain that holds the name, and when
\* none holds it, it fails and every scope stays as it was: the name is not
\* created.
C27_DefineAndAssign ==
    [][/\ last'.op = "define" =>
             OnlyWrites(envs, envs', environment, last'.name, Written)
       /\ last'.op = "assign" =>
             LET chain == ChainOf(envs, environment)
                 holders == {k \in DOMAIN chain : last'.name \in DOMAIN envs[chain[k]].values}
             IN IF holders = {}
                   THEN ~last'.ok /\ envs' = envs
                   ELSE LET nearest == CHOOSE k \in holders : \A j \in holders : k <= j
                        IN /\ last'.ok
                           /\ OnlyWrites(envs, envs', chain[nearest], last'.name, Written)]_vars

C27_Witness ==
    /\ last.op = "assign" /\ ~last.ok
    /\ environment = 1
    /\ last.name \notin DOMAIN envs[1].values
    /\ Len(envs) = MaxDepth

\* C28: get_at and assign_at walk `distance` links and read or write that one
\* scope; a chain that ends before, or a name get_at does not find there, is a
\* panic; neither looks at another scope.
C28_ExactDistance ==
    [][/\ last'.op = "get_at" =>
             LET chain == ChainOf(envs, environment)
                 there == last'.distance + 1
             IN /\ envs' = envs
                /\ IF there <= Len(chain) /\ last'.name \in DOMAIN envs[chain[there]].values
                      THEN last'.ok /\ last'.v = envs[chain[there]].values[last'.name]
                      ELSE ~last'.ok
       /\ last'.op = "assign_at" =>
             LET chain == ChainOf(envs, environment)
                 there == last'.distance + 1
             IN IF there <= Len(chain)
                   THEN last'.ok /\ OnlyWrites(envs, envs', chain[there], last'.name, Written)
                   ELSE ~last'.ok /\ envs' = envs]_vars

C28_Witness ==
    /\ last.op = "get_at" /\ last.distance = 1 /\ last.ok
    /\ environment = 3
    /\ last.name \in DOMAIN envs[3].values
    /\ last.name \in DOMAIN envs[1].values
    /\ envs[3].values[last.name] # last.v
    /\ envs[1].values[last.name] # last.v

\* C29: when Resolver::resolve has returned, with Ok or with an error, the
\* scope stack is empty, current_function is None and in_loop is false; and
\* while a pass runs, the statements of the list are resolved with no scope
\* open, outside every function and loop.
C29_ResolverBalanced ==
    /\ pc = "resolved" => scopes = <<>> /\ current_function = "None" /\ ~in_loop
    /\ (pc = "resolving" /\ rstack # <<>> /\ RTop.op = "top") =>
          scopes = <<>> /\ current_function = "None" /\ ~in_loop

\* C30: a property write changes the one field of the one instance it names:
\* the fields of every other instance, of the same class or not, stay as they
\* are; and neither a property write nor a property read, which binds a
\* method, changes a class: the classes the environments hold and the class
\* of every instance keep their name, superclass and methods.
C30_FieldsPerInstance ==
    [][/\ last'.op = "set" =>
             LET i == last'.instance
             IN /\ DOMAIN instances' = DOMAIN instances
                /\ \A j \in DOMAIN instances : j # i => instances'[j] = instances[j]
                /\ DOMAIN instances'[i].fields = DOMAIN instances[i].fields \cup {last'.name}
                /\ instances'[i].fields[last'.name] = last'.value
                /\ \A n \in DOMAIN instances[i].fields :
                      n # last'.name => instances'[i].fields[n] = instances[i].fields[n]
                /\ envs' = envs
       /\ last'.op \in {"set", "get"} =>
             /\ \A j \in DOMAIN instances : instances'[j].klass = instances[j].klass
             /\ \A e \in DOMAIN envs : \A n \in DOMAIN envs[e].values :
                   envs[e].values[n].k = "Class" => envs'[e].values[n] = envs[e].values[n]
       /\ (pc' = "done" /\ Statements(prog) = FieldsScript) =>
             output' = <<"1", "2", "3", "1">>]_vars

C30_Witness ==
    /\ last.op = "set" /\ last.instance = 1 /\ last.name = "m"
    /\ Len(instances) = 2
    /\ instances[2].klass = instances[1].klass
    /\ instances[2].klass.superclass # Nil
    /\ "f" \in DOMAIN instances[2].fields
    /\ "m" \notin DOMAIN instances[2].fields
====
